---------------------------- MODULE Spec2Model ----------------------------
(***************************************************************************)
(* Course generator of the rhythm mode (scripts/generate_courses.py).      *)
(*                                                                         *)
(* Units.  Times are integer milliseconds (the code rounds every event     *)
(* time to 3 decimals).  Energies, probabilities, weights and ratios are   *)
(* integer thousandths.  Scores are integer thousandths of a point, so the *)
(* range [0,10] is 0..10000.  Divisions round toward minus infinity unless *)
(* the code rounds otherwise.                                              *)
(***************************************************************************)
EXTENDS Integers, Sequences, FiniteSets, TLC

\* ------------------------------------------------------------------------
\* Constants of the source
\* ------------------------------------------------------------------------
LANE_COUNT == 4
LANE_CROSS_TIME_MS == 300
GROUP_WINDOW_MS == 50
NO_GROUP_TIME == -999000
BEAT_SNAP_WINDOW_MS == 100
ENERGY_WINDOW_MS == 10000
DIFFICULTY_CURVE_WINDOWS == 8
INTRO_SKIP_MS == 4000
OUTRO_SKIP_MS == 2000
NUM_SECTIONS == 8
NO_BEAT_DISTANCE == 999000
BYTE_MAX == 255

\* The whole track taken as playable: the outro skip forgotten
WholeDuration(duration_ms) == duration_ms

\* playable_end = duration - OUTRO_SKIP_S
PlayableEnd(duration_ms) == duration_ms - OUTRO_SKIP_MS

\* One unit (1.0) in thousandths, and the top score 10.0.
SCALE == 1000
TEN == 10000

\* SCORE_WEIGHTS in thousandths
W_BEAT_SYNC == 250
W_FLOW == 200
W_DIFFICULTY_CURVE == 150
W_TYPE_VARIETY == 100
W_LANE_COVERAGE == 100
W_ENERGY_MATCH == 100
W_CULL_RATE == 100

\* Literals of compute_scores, in thousandths of a point: raw * 10.5 and the
\* reversal penalty 0.4 * 10.5, the flow of a collapsed list, the variety of
\* a single type, the neutral correlation score, and cull_ratio * 33.3.
FLOW_GAIN == 10500
FLOW_REVERSAL == 4200
FLOW_COLLAPSED == 8000
SINGLE_TYPE_VARIETY == 2000
NEUTRAL_SCORE == 5000
CULL_PENALTY == 33300

\* Window averages of the energy bytes are kept to 1/16.
ENERGY_AVG_SCALE == 16

Lanes == 0 .. (LANE_COUNT - 1)

\* ------------------------------------------------------------------------
\* Bounds of the model
\* ------------------------------------------------------------------------
MaxEvents == 5
MaxPickups == 1
\* Length of the generated lists that are scored, and the largest
\* total_generated offered to the cull_rate formula.
MaxScored == 3
MaxGenerated == 4

\* Event times offered to validate_paths: gaps below (100 ms) and above
\* (350 ms, 450 ms) one lane crossing, all at or after the intro skip.
Times == {4000, 4100, 4450}

\* ------------------------------------------------------------------------
\* Small helpers
\* ------------------------------------------------------------------------
Abs(x) == IF x < 0 THEN -x ELSE x
Min2(a, b) == IF a < b THEN a ELSE b
Max2(a, b) == IF a > b THEN a ELSE b

\* pop(0): the oldest element goes and the rest stays
Rest(s) == Tail(s)

Front(s) == SubSeq(s, 1, Len(s) - 1)
Last(s) == s[Len(s)]

\* CourseEvent(t, lane, type, lead); lead = -1 stands for None.
CourseEvent(t, lane, type) == [t |-> t, lane |-> lane, type |-> type, lead |-> -1]

\* e.type.startswith('pickup')
IsPickup(e) == e.type \in {"pickup_ammo", "pickup_shield"}

\* The one element of a one-element set.  An operator's argument and a LET
\* definition stand for expressions; Only({f(x) : x \in {e}}) computes e
\* once and hands its value to f, as an assignment x = e does.
Only(S) == CHOOSE x \in S : TRUE

\* The stable sort list.sort(key=lambda e: e.t) / sorted(events, key=...).
RECURSIVE InsertByT(_, _)
InsertByT(e, s) ==
    IF s = <<>> THEN <<e>>
    ELSE IF e.t < Head(s).t THEN <<e>> \o s
    ELSE <<Head(s)>> \o InsertByT(e, Tail(s))

RECURSIVE SortFrom(_, _)
SortFrom(s, acc) ==
    IF s = <<>> THEN acc
    ELSE Only({SortFrom(Tail(s), a) : a \in {InsertByT(Head(s), acc)}})

SortByT(s) == SortFrom(s, <<>>)

\* ------------------------------------------------------------------------
\* validate_paths
\* ------------------------------------------------------------------------

\* The grouping loop: an event joins the current group when it lies within
\* 50 ms of the group's first event, otherwise it opens a new group.
RECURSIVE GroupFrom(_, _, _, _)
GroupFrom(sorted, groups, current_group_time, current_group) ==
    LET closed == IF current_group # <<>>
                  THEN Append(groups, [time |-> current_group_time,
                                       events |-> current_group])
                  ELSE groups
    IN  IF sorted = <<>> THEN closed
        ELSE LET e == Head(sorted)
             IN  IF Abs(e.t - current_group_time) < GROUP_WINDOW_MS
                 THEN GroupFrom(Tail(sorted), groups, current_group_time,
                                Append(current_group, e))
                 ELSE GroupFrom(Tail(sorted), closed, e.t, <<e>>)

time_groups(events) == GroupFrom(SortByT(events), <<>>, NO_GROUP_TIME, <<>>)

ObstaclesOf(group_events) == SelectSeq(group_events, LAMBDA e : ~IsPickup(e))
PickupsOf(group_events) == SelectSeq(group_events, LAMBDA e : IsPickup(e))
BlockedLanes(group_events) ==
    {group_events[i].lane : i \in {j \in 1 .. Len(group_events) :
                                      ~IsPickup(group_events[j])}}

\* The nested search for a (prev_lane, curr_lane) pair.
Reachable(prev_safe, current_safe, max_lane_change) ==
    \E prev_lane \in prev_safe : \E curr_lane \in current_safe :
        Abs(curr_lane - prev_lane) <= max_lane_change

\* while safe_lanes < min_safe_lanes and obstacle_events: pop, discard.
RECURSIVE CullForSafety(_, _, _, _)
CullForSafety(obstacle_events, blocked_lanes, cull_count, min_safe_lanes) ==
    IF LANE_COUNT - Cardinality(blocked_lanes) < min_safe_lanes
       /\ obstacle_events # <<>>
    THEN CullForSafety(Front(obstacle_events),
                       blocked_lanes \ {Last(obstacle_events).lane},
                       cull_count + 1, min_safe_lanes)
    ELSE [obstacle_events |-> obstacle_events, blocked_lanes |-> blocked_lanes,
          cull_count |-> cull_count]

\* while not reachable and obstacle_events: pop, discard, search again.
RECURSIVE CullForReach(_, _, _, _, _)
CullForReach(obstacle_events, blocked_lanes, cull_count, prev_safe, max_lane_change) ==
    IF ~Reachable(prev_safe, Lanes \ blocked_lanes, max_lane_change)
       /\ obstacle_events # <<>>
    THEN CullForReach(Front(obstacle_events),
                      blocked_lanes \ {Last(obstacle_events).lane},
                      cull_count + 1, prev_safe, max_lane_change)
    ELSE [obstacle_events |-> obstacle_events, blocked_lanes |-> blocked_lanes,
          cull_count |-> cull_count]

\* One iteration of the loop over time_groups: group gi of groups.
ValidateGroup(groups, gi, cull_count, min_safe_lanes) ==
    LET group_events == groups[gi].events
        s == CullForSafety(ObstaclesOf(group_events), BlockedLanes(group_events),
                           cull_count, min_safe_lanes)
        r == IF gi > 1
             THEN LET time_gap == groups[gi].time - groups[gi - 1].time
                      max_lane_change == time_gap \div LANE_CROSS_TIME_MS
                      prev_safe == Lanes \ BlockedLanes(groups[gi - 1].events)
                  IN  CullForReach(s.obstacle_events, s.blocked_lanes,
                                   s.cull_count, prev_safe, max_lane_change)
             ELSE s
    IN  [kept |-> r.obstacle_events \o PickupsOf(group_events),
         cull_count |-> r.cull_count]

RECURSIVE ValidateFrom(_, _, _, _, _)
ValidateFrom(groups, gi, validated, cull_count, min_safe_lanes) ==
    IF gi > Len(groups)
    THEN [events |-> SortByT(validated), cull_count |-> cull_count]
    ELSE Only({ValidateFrom(groups, gi + 1, validated \o g.kept, g.cull_count,
                            min_safe_lanes) :
                  g \in {ValidateGroup(groups, gi, cull_count, min_safe_lanes)}})

validate_paths(events, min_safe_lanes) ==
    IF events = <<>> THEN [events |-> events, cull_count |-> 0]
    ELSE Only({ValidateFrom(groups, 1, <<>>, 0, min_safe_lanes) :
                  groups \in {time_groups(events)}})

\* ------------------------------------------------------------------------
\* Beat data helpers
\* ------------------------------------------------------------------------

\* sample_at(arr, time_s, resolution_ms): arr holds 0..255, time is in ms,
\* the result is in thousandths.  int(idx) truncates toward zero, so every
\* time above -resolution_ms has i0 = 0 or more.
sample_at(arr, time_ms, resolution_ms) ==
    IF arr = <<>> THEN 0
    ELSE LET i0 == IF time_ms >= 0 THEN time_ms \div resolution_ms
                   ELSE -((-time_ms) \div resolution_ms)
             rem == time_ms - i0 * resolution_ms
         IN  IF i0 < 0 THEN (arr[1] * SCALE) \div BYTE_MAX
             ELSE IF i0 >= Len(arr) - 1 THEN (arr[Len(arr)] * SCALE) \div BYTE_MAX
             ELSE ((arr[i0 + 1] * (resolution_ms - rem) + arr[i0 + 2] * rem) * SCALE)
                      \div (BYTE_MAX * resolution_ms)

\* The same sample kept exactly, as the fraction num / den with
\* den = 255 * resolution_ms, for the comparisons generate_events makes
sample_exactly(arr, time_ms, resolution_ms) ==
    LET i0 == IF time_ms >= 0 THEN time_ms \div resolution_ms
              ELSE -((-time_ms) \div resolution_ms)
        rem == time_ms - i0 * resolution_ms
        num == IF arr = <<>> THEN 0
               ELSE IF i0 < 0 THEN arr[1] * resolution_ms
               ELSE IF i0 >= Len(arr) - 1 THEN arr[Len(arr)] * resolution_ms
               ELSE arr[i0 + 1] * (resolution_ms - rem) + arr[i0 + 2] * rem
    IN  [num |-> num, den |-> BYTE_MAX * resolution_ms]

\* The binary search of find_nearest_beat: lo, hi are 0-based indices.
RECURSIVE BisectBeats(_, _, _, _)
BisectBeats(beats, t, lo, hi) ==
    IF lo < hi
    THEN LET mid == (lo + hi) \div 2
         IN  IF beats[mid + 1] < t THEN BisectBeats(beats, t, mid + 1, hi)
             ELSE BisectBeats(beats, t, lo, mid)
    ELSE lo

\* A search that never leaves the first beat
DistanceToFirstBeat(beats, t) ==
    IF beats = <<>> THEN NO_BEAT_DISTANCE ELSE Abs(beats[1] - t)

\* The distance to the beat the search stopped at, its left neighbour unseen
DistanceAt(beats, t, lo) == Abs(beats[lo + 1] - t)

\* best = abs(beats[lo] - t); if lo > 0: best = min(best, abs(beats[lo-1] - t))
BestOfNeighbours(beats, t, lo) ==
    LET best == Abs(beats[lo + 1] - t)
    IN  IF lo > 0 THEN Min2(best, Abs(beats[lo] - t)) ELSE best

\* find_nearest_beat(beats, t): the distance in ms, 999 s when beats is empty.
find_nearest_beat(beats, t) ==
    IF beats = <<>> THEN NO_BEAT_DISTANCE
    ELSE BestOfNeighbours(beats, t, BisectBeats(beats, t, 0, Len(beats) - 1))

\* ------------------------------------------------------------------------
\* Numeric helpers of the scorer
\* ------------------------------------------------------------------------
RECURSIVE SumSeq(_)
SumSeq(s) == IF s = <<>> THEN 0 ELSE Head(s) + SumSeq(Tail(s))

\* floor(sqrt(n))
RECURSIVE ISqrt(_)
ISqrt(n) ==
    IF n < 2 THEN n
    ELSE Only({IF (r + 1) * (r + 1) <= n THEN r + 1 ELSE r :
                  r \in {2 * ISqrt(n \div 4)}})

\* math.sqrt in hundredths: floor(100 * sqrt(n)), coarser for large n.
SqrtCenti(n) ==
    Only({IF v <= 200000 THEN ISqrt(v * 10000) ELSE 100 * ISqrt(v) : v \in {n}})

\* floor(log2(n)) for n >= 1
RECURSIVE ILog2(_)
ILog2(n) == IF n < 2 THEN 0 ELSE 1 + ILog2(n \div 2)

RECURSIVE Pow2(_)
Pow2(k) == IF k = 0 THEN 1 ELSE 2 * Pow2(k - 1)

\* The fraction bits of log2 by repeated squaring: m is the mantissa in
\* 1/16384, in [16384, 32768).
RECURSIVE Log2Frac(_, _)
Log2Frac(m, bit) ==
    IF bit > 10 THEN 0
    ELSE Only({IF sq >= 32768
               THEN Pow2(10 - bit) + Log2Frac(sq \div 2, bit + 1)
               ELSE Log2Frac(sq, bit + 1) :
                  sq \in {(m * m) \div 16384}})

\* math.log2(n) for an integer n >= 1, in thousandths.
Log2Milli(n) ==
    LET e == ILog2(n)
    IN  e * SCALE + (Log2Frac((n * 16384) \div Pow2(e), 1) * SCALE) \div 1024

\* pearson_correlation(x, y) in thousandths, for integer sequences.  With
\* n*Sxy - Sx*Sy over sqrt(n*Sxx - Sx^2) * sqrt(n*Syy - Sy^2) the means
\* cancel; the square roots are taken to two decimals.
PearsonOf(n, num, den_x, den_y) ==
    LET k1 == IF Abs(num) <= 20000 THEN 100000 ELSE 1000
        mag == (((Abs(num) * k1) \div den_x) * (10000000 \div k1)) \div den_y
    IN  IF n < 2 THEN 0
        ELSE IF den_x = 0 \/ den_y = 0 THEN 0
        ELSE IF num < 0 THEN -mag ELSE mag

pearson_correlation(x, y) ==
    LET n == Len(x)
        sx == SumSeq(x)
        sy == SumSeq(y)
        num == n * SumSeq([i \in 1 .. n |-> x[i] * y[i]]) - sx * sy
        dx == n * SumSeq([i \in 1 .. n |-> x[i] * x[i]]) - sx * sx
        dy == n * SumSeq([i \in 1 .. n |-> y[i] * y[i]]) - sy * sy
    IN  Only({PearsonOf(n, nm, den_x, den_y) :
                 nm \in {num}, den_x \in {SqrtCenti(dx)}, den_y \in {SqrtCenti(dy)}})

\* A clamp that forgets its lower bound.
ClampOnlyAbove(v) == Min2(TEN, v)

\* min(10.0, max(0.0, v))
Clamp10(v) == Only({Min2(TEN, Max2(0, x)) : x \in {v}})

\* ------------------------------------------------------------------------
\* compute_scores
\* ------------------------------------------------------------------------

\* A default whose cull_rate is the 10 of "nothing was generated"
NothingCulledDefault ==
    [beat_sync |-> 0, flow |-> 0, difficulty_curve |-> 0, type_variety |-> 0,
     lane_coverage |-> 0, energy_match |-> 0, cull_rate |-> TEN]

\* ScoreBreakdown(): every sub-score defaults to 0.0
ScoreBreakdown ==
    [beat_sync |-> 0, flow |-> 0, difficulty_curve |-> 0, type_variety |-> 0,
     lane_coverage |-> 0, energy_match |-> 0, cull_rate |-> 0]

\* ScoreBreakdown.total, in millionths of a point: the weights are the
\* thousandths of SCORE_WEIGHTS and the sub-scores are thousandths.
total(scores) ==
    scores.beat_sync * W_BEAT_SYNC + scores.flow * W_FLOW
    + scores.difficulty_curve * W_DIFFICULTY_CURVE
    + scores.type_variety * W_TYPE_VARIETY
    + scores.lane_coverage * W_LANE_COVERAGE
    + scores.energy_match * W_ENERGY_MATCH + scores.cull_rate * W_CULL_RATE

\* 1. beat_sync
BeatSyncScore(all_events, beats) ==
    LET synced == Len(SelectSeq(all_events,
                        LAMBDA e : find_nearest_beat(beats, e.t) <= BEAT_SNAP_WINDOW_MS))
    IN  Min2(TEN, (synced * TEN) \div Len(all_events))

\* 2. flow: the first lane of every time group of the obstacles
RECURSIVE FlowGroupsFrom(_, _, _, _)
FlowGroupsFrom(sorted, flow_groups, current_t, first_lane) ==
    LET closed == IF first_lane >= 0 THEN Append(flow_groups, first_lane)
                  ELSE flow_groups
    IN  IF sorted = <<>> THEN closed
        ELSE LET e == Head(sorted)
             IN  IF Abs(e.t - current_t) < GROUP_WINDOW_MS
                 THEN FlowGroupsFrom(Tail(sorted), flow_groups, current_t, first_lane)
                 ELSE FlowGroupsFrom(Tail(sorted), closed, e.t, e.lane)

\* The transition loop: st carries small_steps, reversals,
\* directional_moves and prev_dir.
RECURSIVE FlowSteps(_, _, _)
FlowSteps(flow_groups, i, st) ==
    IF i > Len(flow_groups) THEN st
    ELSE LET diff == flow_groups[i] - flow_groups[i - 1]
             direction == IF diff > 0 THEN 1 ELSE -1
             rev == diff # 0 /\ st.prev_dir # 0 /\ direction # st.prev_dir
         IN  Only({FlowSteps(flow_groups, i + 1, next) :
                      next \in {[small_steps |-> st.small_steps
                                                    + (IF Abs(diff) <= 1 THEN 1 ELSE 0),
                                 reversals |-> st.reversals + (IF rev THEN 1 ELSE 0),
                                 directional_moves |->
                                     st.directional_moves + (IF diff # 0 THEN 1 ELSE 0),
                                 prev_dir |-> IF diff # 0 THEN direction
                                              ELSE st.prev_dir]}})

FlowScore(obstacle_events) ==
    IF Len(obstacle_events) >= 3
    THEN LET flow_groups == FlowGroupsFrom(SortByT(obstacle_events), <<>>,
                                           NO_GROUP_TIME, -1)
         IN  IF Len(flow_groups) >= 3
             THEN LET st == FlowSteps(flow_groups, 2,
                                [small_steps |-> 0, reversals |-> 0,
                                 directional_moves |-> 0, prev_dir |-> 0])
                      total_transitions == Max2(1, Len(flow_groups) - 1)
                      moves == Max2(1, st.directional_moves)
                      \* raw * 10.5 = 10.5 * step_score - 4.2 * reversal_rate
                      raw == (FLOW_GAIN * st.small_steps * moves
                              - FLOW_REVERSAL * st.reversals * total_transitions)
                             \div (total_transitions * moves)
                  IN  Clamp10(raw)
             ELSE TEN
    ELSE IF Len(obstacle_events) <= 2 THEN TEN
    ELSE FLOW_COLLAPSED

\* Events with t_start <= e.t < t_end for window w of n_windows over
\* duration: the bounds are w * duration / n_windows, compared exactly.
InWindow(e, w, n_windows, duration) ==
    /\ w * duration <= e.t * n_windows
    /\ e.t * n_windows < (w + 1) * duration

\* 3. difficulty_curve
DifficultyCurveScore(obstacle_events, duration) ==
    IF obstacle_events # <<>> /\ duration > 0
    THEN LET densities == [w \in 1 .. DIFFICULTY_CURVE_WINDOWS |->
                              Len(SelectSeq(obstacle_events,
                                    LAMBDA e : InWindow(e, w - 1,
                                                   DIFFICULTY_CURVE_WINDOWS, duration)))]
             indices == [w \in 1 .. DIFFICULTY_CURVE_WINDOWS |-> w - 1]
         IN  IF SumSeq(densities) > 0
             THEN Clamp10((pearson_correlation(indices, densities) + SCALE) * 5)
             ELSE 0
    ELSE 0

\* 4. type_variety: entropy = log2(total) - sum(c * log2(c)) / total
TypeKey(e) == IF IsPickup(e) THEN "pickup" ELSE e.type

TypeVarietyScore(all_events) ==
    LET keys == {TypeKey(all_events[i]) : i \in 1 .. Len(all_events)}
        n == Len(all_events)
        num_types == Cardinality(keys)
        cnt(k) == Len(SelectSeq(all_events, LAMBDA e : TypeKey(e) = k))
        RECURSIVE SumCLogC(_)
        SumCLogC(ks) == IF ks = {} THEN 0
                        ELSE LET k == CHOOSE x \in ks : TRUE
                             IN  cnt(k) * Log2Milli(cnt(k)) + SumCLogC(ks \ {k})
        entropy == Log2Milli(n) - SumCLogC(keys) \div n
        max_entropy == Log2Milli(Min2(num_types, 4))
    IN  IF num_types > 1
        THEN Min2(TEN, (entropy * TEN) \div max_entropy)
        ELSE SINGLE_TYPE_VARIETY

\* 5. lane_coverage: deviation = sum((4c - total)^2) / (4 * total)
LaneCoverageScore(all_events) ==
    LET n == Len(all_events)
        lane_counts == [l \in Lanes |->
                           Len(SelectSeq(all_events, LAMBDA e : e.lane = l))]
        sq == SumSeq([i \in 1 .. LANE_COUNT |->
                         (LANE_COUNT * lane_counts[i - 1] - n)
                         * (LANE_COUNT * lane_counts[i - 1] - n)])
    IN  Clamp10(TEN - (2 * SCALE * sq) \div (LANE_COUNT * n))

\* 6. energy_match
EnergyMatchScore(all_events, energy, duration, res_ms) ==
    IF duration > 0
    THEN LET num_windows == Max2(2, duration \div ENERGY_WINDOW_MS)
             spawn_densities == [w \in 1 .. num_windows |->
                                    Len(SelectSeq(all_events,
                                          LAMBDA e : InWindow(e, w - 1, num_windows,
                                                              duration)))]
             i_start(w) == Max2(0, Min2(((w - 1) * duration) \div (num_windows * res_ms),
                                        Len(energy) - 1))
             i_end(w) == Max2(i_start(w) + 1,
                              Min2((w * duration) \div (num_windows * res_ms),
                                   Len(energy)))
             \* sum(energy[i_start:i_end]): a slice stops at the end of the list
             slice_sum(w) == SumSeq([k \in 1 .. (Min2(i_end(w), Len(energy)) - i_start(w))
                                        |-> energy[i_start(w) + k]])
             energy_averages == [w \in 1 .. num_windows |->
                                    (slice_sum(w) * ENERGY_AVG_SCALE)
                                        \div Max2(1, i_end(w) - i_start(w))]
         IN  IF num_windows >= 2
             THEN Clamp10((pearson_correlation(spawn_densities, energy_averages)
                           + SCALE) * 5)
             ELSE NEUTRAL_SCORE
    ELSE 0

\* A cull_rate that charges nothing for a cull
NoCullPenalty(cull_count, total_generated) == TEN

\* 7. cull_rate: 10 - 33.3 * cull_count / total_generated
CullRateScore(cull_count, total_generated) ==
    IF total_generated > 0
    THEN Clamp10(TEN - (CULL_PENALTY * cull_count) \div total_generated)
    ELSE TEN

\* A scorer that gives every list the default breakdown
ZeroScores(events, beat_data, cull_count, total_generated) == ScoreBreakdown

compute_scores(events, beat_data, cull_count, total_generated) ==
    IF events = <<>> THEN ScoreBreakdown
    ELSE LET obstacle_events == ObstaclesOf(events)
         IN  [beat_sync |-> BeatSyncScore(events, beat_data.beats),
              flow |-> FlowScore(obstacle_events),
              difficulty_curve |->
                  DifficultyCurveScore(obstacle_events, beat_data.duration_ms),
              type_variety |-> TypeVarietyScore(events),
              lane_coverage |-> LaneCoverageScore(events),
              energy_match |->
                  EnergyMatchScore(events, beat_data.energy, beat_data.duration_ms,
                                   beat_data.resolution_ms),
              cull_rate |-> CullRateScore(cull_count, total_generated)]

\* ------------------------------------------------------------------------
\* State
\* ------------------------------------------------------------------------
VARIABLES
    pc,                 \* position of the run: which call is pending or done
    vp_events,          \* validate_paths: the events argument
    vp_min_safe,        \* validate_paths: params.min_safe_lanes
    vp_result,          \* validate_paths: the returned (validated, cull_count)
    beat_data,          \* the BeatMap document
    scores,             \* compute_scores: the returned ScoreBreakdown
    difficulty,         \* generate_course: the preset name
    max_attempts,       \* generate_course: the attempt budget
    target_score,       \* generate_course: the total that stops the search
    params,             \* generate_course: the DifficultyParams of the next attempt
    attempt,            \* generate_course: the loop variable of range(max_attempts)
    champion_events,    \* generate_course: <<>> stands for None and for []
    champion_score,
    champion_seed,
    champion_attempts,
    attempt_log,        \* what each attempt used and made, in attempt order
    course,             \* the returned Course document
    run,                \* how many times generate_course was entered
    first_course,       \* the document the first run returned
    twister,            \* the generator behind random.Random: seed -> stream
    post_rng,           \* generate_course: post_rng
    heap,               \* the DifficultyParams objects alive, by identity
    base_params,        \* generate_course: the object base_params names
    params_at,          \* generate_course: the object params names
    called,             \* a helper called on its own: its name and arguments
    returned            \* what that helper returned

vpVars == <<vp_events, vp_min_safe, vp_result>>
scVars == <<beat_data, scores>>
argVars == <<difficulty, max_attempts, target_score>>
loopVars == <<params, attempt, attempt_log>>
championVars == <<champion_events, champion_score, champion_seed, champion_attempts>>
runVars == <<course, run, first_course>>
rngVars == <<twister, post_rng>>
objVars == <<heap, base_params, params_at>>
gcVars == <<argVars, loopVars, championVars, runVars, rngVars, objVars>>
helperVars == <<called, returned>>
vars == <<pc, vpVars, scVars, gcVars, helperVars>>

\* A BeatMap: duration_ms is duration_s in ms, beats are in ms, the signal
\* arrays hold bytes.
BeatMap(resolution_ms, duration_ms, beats, energy, bass, percussive, harmonic) ==
    [resolution_ms |-> resolution_ms, duration_ms |-> duration_ms, bpm |-> 120,
     beats |-> beats, energy |-> energy, bass |-> bass,
     percussive |-> percussive, harmonic |-> harmonic]

NoBeatMap == BeatMap(1000, 0, <<>>, <<>>, <<>>, <<>>, <<>>)

NoResult == [events |-> <<>>, cull_count |-> -1]

\* ------------------------------------------------------------------------
\* DifficultyParams: the float fields are in thousandths
\* ------------------------------------------------------------------------
DifficultyParams ==
    [beat_skip |-> 2, max_per_cluster |-> 2,
     crash_weight |-> 350, car_weight |-> 300, slow_weight |-> 150,
     pickup_ratio |-> 250, min_safe_lanes |-> 2, density |-> 550,
     curve_start |-> 200, energy_floor |-> 120, energy_influence |-> 500,
     wave_amplitude |-> 3, wave_period |-> 12, wave_noise |-> 150,
     cluster2_energy |-> 650, cluster3_energy |-> 820,
     cluster2_prob |-> 450, cluster3_prob |-> 250]

DIFFICULTY_PRESETS ==
    [easy |->
        [DifficultyParams EXCEPT
            !.beat_skip = 4, !.max_per_cluster = 1,
            !.crash_weight = 250, !.car_weight = 200, !.slow_weight = 200,
            !.pickup_ratio = 350, !.min_safe_lanes = 3, !.density = 550,
            !.curve_start = 150, !.energy_floor = 180, !.energy_influence = 400,
            !.wave_amplitude = 3, !.wave_period = 10, !.wave_noise = 150],
     normal |->
        [DifficultyParams EXCEPT
            !.beat_skip = 2, !.max_per_cluster = 2,
            !.crash_weight = 350, !.car_weight = 300, !.slow_weight = 150,
            !.pickup_ratio = 250, !.min_safe_lanes = 2, !.density = 550,
            !.curve_start = 200, !.energy_floor = 120, !.energy_influence = 600,
            !.wave_amplitude = 3, !.wave_period = 14, !.wave_noise = 150,
            !.cluster2_energy = 650, !.cluster2_prob = 450],
     hard |->
        [DifficultyParams EXCEPT
            !.beat_skip = 1, !.max_per_cluster = 3,
            !.crash_weight = 450, !.car_weight = 300, !.slow_weight = 100,
            !.pickup_ratio = 120, !.min_safe_lanes = 1, !.density = 550,
            !.curve_start = 250, !.energy_floor = 80, !.energy_influence = 700,
            !.wave_amplitude = 3, !.wave_period = 16, !.wave_noise = 200,
            !.cluster2_energy = 550, !.cluster2_prob = 550,
            !.cluster3_energy = 750, !.cluster3_prob = 350]]

\* ------------------------------------------------------------------------
\* random.Random(seed).  The generator is a fixed function of the seed: the
\* stream of a seed is twister[seed], a sequence of values of random() in
\* thousandths that is read cyclically; an rng object is the seed and the
\* number of values drawn so far.  The model is checked for every twister
\* of a small family, so nothing depends on the values of one generator.
\* ------------------------------------------------------------------------
MaxAttempts == 3
PostSeedOffset == 1000

\* The champion's own seed used again for the post-processing
ChampionSeedAgain(champion_seed_) == champion_seed_

\* champion_seed + 1000, the seed of post_rng
PostSeed(champion_seed_) == champion_seed_ + PostSeedOffset

Seeds == (1 .. MaxAttempts) \cup {PostSeedOffset + s : s \in 0 .. MaxAttempts}

StreamValues == <<20, 140, 260, 330, 420, 480, 530, 610, 720, 870, 990>>

Stream(offset, stride) ==
    [k \in 1 .. Len(StreamValues) |->
        StreamValues[((offset + (k - 1) * stride) % Len(StreamValues)) + 1]]

Twisters ==
    {[s \in Seeds |-> Stream(s * a + b, 1 + ((s + b) % 3))] :
        a \in {1, 4}, b \in {0, 5}}

random_Random(seed) == [seed |-> seed, pos |-> 0]

\* rng.random(), in thousandths, and the rng after the draw
random(rng) == twister[rng.seed][(rng.pos % Len(twister[rng.seed])) + 1]
Drawn(rng) == [rng EXCEPT !.pos = @ + 1]

NoRng == random_Random(0)

NoCourse == [status |-> "none"]

\* The objects DIFFICULTY_PRESETS holds, by identity, as the module makes
\* them when it is loaded
PresetAt == [easy |-> 1, normal |-> 2, hard |-> 3]
ModuleHeap ==
    [id \in {PresetAt[d] : d \in DOMAIN PresetAt} |->
        DIFFICULTY_PRESETS[CHOOSE d \in DOMAIN PresetAt : PresetAt[d] = id]]

\* The objects that outlive a call: those DIFFICULTY_PRESETS holds
ModuleObjects(h) == [id \in DOMAIN ModuleHeap |-> h[id]]

\* The same object under another name, no copy made
SameObject(h, id) == [heap |-> h, at |-> id]

\* deepcopy(x): a new object with the fields of x
deepcopy(h, id) ==
    LET new == (CHOOSE m \in DOMAIN h : \A k \in DOMAIN h : k <= m) + 1
    IN  [heap |-> [k \in DOMAIN h \cup {new} |-> IF k = new THEN h[id] ELSE h[k]],
         at |-> new]

\* base_params = deepcopy(DIFFICULTY_PRESETS[difficulty]);
\* params = deepcopy(base_params)
EnterCourse(h, d) ==
    LET b == deepcopy(h, PresetAt[d])
        c == deepcopy(b.heap, b.at)
    IN  [heap |-> c.heap, base_params |-> b.at, params |-> c.at]

\* No call of generate_course is under way
NoObject == "unbound"
IdleObjects == heap = ModuleHeap /\ base_params = NoObject /\ params_at = NoObject

\* No helper is called on its own
NoCall == [fn |-> "none"]
IdleHelpers == called = NoCall /\ returned = NoCall

\* The variables of generate_course while another function is checked alone
IdleCourse ==
    /\ difficulty = "normal"
    /\ max_attempts = 0
    /\ target_score = 0
    /\ params = DifficultyParams
    /\ attempt = 0
    /\ attempt_log = <<>>
    /\ champion_events = <<>>
    /\ champion_score = ScoreBreakdown
    /\ champion_seed = 0
    /\ champion_attempts = 0
    /\ course = NoCourse
    /\ run = 0
    /\ first_course = NoCourse
    /\ twister = <<>>
    /\ post_rng = NoRng
    /\ IdleObjects

\* ------------------------------------------------------------------------
\* Specification of validate_paths on its own
\* ------------------------------------------------------------------------
SortedTimeSeqs(n) ==
    {ts \in [1 .. n -> Times] : \A i \in 1 .. (n - 1) : ts[i] <= ts[i + 1]}

TypeSeqs(n) ==
    {ty \in [1 .. n -> {"crash", "pickup_ammo"}] :
        Cardinality({i \in 1 .. n : ty[i] = "pickup_ammo"}) <= MaxPickups}

\* Event lists as generate_events hands them over: in time order, at most
\* MaxEvents events of which at most MaxPickups are pickups.
InitValidate ==
    /\ pc = "validate_paths"
    /\ \E n \in 0 .. MaxEvents :
         \E ts \in SortedTimeSeqs(n), ls \in [1 .. n -> Lanes], ty \in TypeSeqs(n) :
            vp_events = [i \in 1 .. n |-> CourseEvent(ts[i], ls[i], ty[i])]
    /\ vp_min_safe \in 1 .. 3
    /\ vp_result = NoResult
    /\ beat_data = NoBeatMap
    /\ scores = ScoreBreakdown
    /\ IdleCourse
    /\ IdleHelpers

CallValidatePaths ==
    /\ pc = "validate_paths"
    /\ vp_result' = validate_paths(vp_events, vp_min_safe)
    /\ pc' = "validated"
    /\ UNCHANGED <<helperVars, vp_events, vp_min_safe, scVars, gcVars>>

NextValidate == CallValidatePaths

SpecValidate == InitValidate /\ [][NextValidate]_vars

\* ------------------------------------------------------------------------
\* C1, C2: the playability invariants of a validated list
\* ------------------------------------------------------------------------
SafeLaneCount(group_events) == LANE_COUNT - Cardinality(BlockedLanes(group_events))

AllGroupsSafe(events, min_safe_lanes) ==
    LET gs == time_groups(events)
    IN  \A gi \in 1 .. Len(gs) : SafeLaneCount(gs[gi].events) >= min_safe_lanes

AllGroupsReachable(events) ==
    LET gs == time_groups(events)
    IN  \A gi \in 2 .. Len(gs) :
            Reachable(Lanes \ BlockedLanes(gs[gi - 1].events),
                      Lanes \ BlockedLanes(gs[gi].events),
                      (gs[gi].time - gs[gi - 1].time) \div LANE_CROSS_TIME_MS)

\* The safe-lane invariant and the reachability invariant together
Playable(events, min_safe_lanes) ==
    AllGroupsSafe(events, min_safe_lanes) /\ AllGroupsReachable(events)

\* C1: in the list validate_paths returns, every time group leaves at least
\* min_safe_lanes lanes free of non-pickup events.
C1_SafetyInvariant ==
    pc = "validated" => AllGroupsSafe(vp_result.events, vp_min_safe)

\* C2: in the list validate_paths returns, every group is reachable from the
\* group before it: some unblocked lane of the later group lies within
\* floor(dt / 0.3 s) lanes of some unblocked lane of the earlier group.
C2_ReachabilityInvariant ==
    pc = "validated" => AllGroupsReachable(vp_result.events)

\* ------------------------------------------------------------------------
\* Specification of the scoring of one attempt: a generated list is
\* validated and the validated list is scored (generate_course, the two
\* calls after generate_events).
\* ------------------------------------------------------------------------
ScoreTimes == {4000, 4500, 5200}
ScoreTypes == {"crash", "car", "pickup_ammo"}

\* Beat maps of 8 s: beats on or near the event times with a rising energy
\* signal, no beats and no signal at all, and a constant signal.
ScoreBeatMaps ==
    {BeatMap(1000, 8000, <<4000, 4450, 6000>>, <<10, 10, 20, 40, 90, 200, 250, 255>>,
             <<>>, <<>>, <<>>),
     BeatMap(1000, 0, <<>>, <<>>, <<>>, <<>>, <<>>),
     BeatMap(500, 8000, <<5200>>, <<128, 128, 128, 128>>, <<>>, <<>>, <<>>)}

InitScore ==
    /\ pc = "validate_paths"
    /\ \E n \in 0 .. MaxScored :
         \E ts \in {x \in [1 .. n -> ScoreTimes] :
                       \A i \in 1 .. (n - 1) : x[i] <= x[i + 1]},
            ls \in [1 .. n -> Lanes], ty \in [1 .. n -> ScoreTypes] :
            vp_events = [i \in 1 .. n |-> CourseEvent(ts[i], ls[i], ty[i])]
    /\ vp_min_safe \in 1 .. 3
    /\ vp_result = NoResult
    /\ beat_data \in ScoreBeatMaps
    /\ scores = ScoreBreakdown
    /\ IdleCourse
    /\ IdleHelpers

\* events, cull_count = validate_paths(events, params)
\* scores = compute_scores(events, beat_data, cull_count, total_generated)
ScoreAttempt ==
    /\ pc = "validate_paths"
    /\ LET total_generated == Len(vp_events)
           v == validate_paths(vp_events, vp_min_safe)
       IN  /\ vp_result' = v
           /\ scores' = compute_scores(v.events, beat_data, v.cull_count,
                                       total_generated)
    /\ pc' = "scored"
    /\ UNCHANGED <<helperVars, vp_events, vp_min_safe, beat_data, gcVars>>

NextScore == ScoreAttempt

SpecScore == InitScore /\ [][NextScore]_vars

\* ------------------------------------------------------------------------
\* C6: score bounds
\* ------------------------------------------------------------------------
SubScores(sb) ==
    {sb.beat_sync, sb.flow, sb.difficulty_curve, sb.type_variety,
     sb.lane_coverage, sb.energy_match, sb.cull_rate}

\* C6: for every validated list, the empty one included, each of the seven
\* sub-scores lies in [0,10] and so does the weighted total; the cull_rate
\* sub-score does so for every cull_count from 0 to total_generated.
C6_ScoreBounds ==
    pc = "scored" =>
        /\ \A v \in SubScores(scores) : 0 <= v /\ v <= TEN
        /\ 0 <= total(scores) /\ total(scores) <= TEN * SCALE
        /\ \A tg \in 0 .. MaxGenerated : \A cc \in 0 .. tg :
              0 <= CullRateScore(cc, tg) /\ CullRateScore(cc, tg) <= TEN

\* A scored, non-empty list on which the clamps act: three obstacles of
\* two types at three times in one lane drive lane_coverage below 0 and
\* the flow formula to 10.5, and nothing was culled.
C6_Witness ==
    /\ pc = "scored"
    /\ Len(ObstaclesOf(vp_result.events)) = 3
    /\ Len(time_groups(vp_result.events)) = 3
    /\ scores.lane_coverage = 0
    /\ scores.flow = TEN
    /\ scores.type_variety > SINGLE_TYPE_VARIETY
    /\ scores.cull_rate = TEN

\* ------------------------------------------------------------------------
\* C11: beat-sync exactness
\* ------------------------------------------------------------------------
BeatGridTimes == ScoreTimes \cup {4450, 6000}
MaxGrid == 3

\* The ascending beats sequences of up to MaxGrid beats, repeats included
BeatGrids ==
    UNION {{b \in [1 .. n -> BeatGridTimes] :
               \A i \in 1 .. (n - 1) : b[i] <= b[i + 1]} : n \in 0 .. MaxGrid}

\* Every event's time is one of the beats
OnBeats(events, beats) ==
    \A i \in 1 .. Len(events) :
        \E k \in 1 .. Len(beats) : events[i].t = beats[k]

\* C11: a non-empty list whose every event sits exactly on a beat is given
\* beat_sync = 10.0 by compute_scores, on the beats of the scored BeatMap
\* and on every other ascending beats sequence that holds the event times.
C11_BeatSyncExact ==
    (pc = "scored" /\ vp_result.events # <<>>) =>
        /\ OnBeats(vp_result.events, beat_data.beats) => scores.beat_sync = TEN
        /\ \A beats \in BeatGrids :
              OnBeats(vp_result.events, beats) =>
                  BeatSyncScore(vp_result.events, beats) = TEN

\* Three events on the first of three beats, scored 10
C11_Witness ==
    /\ pc = "scored"
    /\ Len(vp_result.events) = 3
    /\ Len(beat_data.beats) = 3
    /\ {vp_result.events[i].t : i \in 1 .. 3} = {4000}
    /\ OnBeats(vp_result.events, beat_data.beats)
    /\ BeatSyncScore(vp_result.events, <<4000, 4500, 5200>>) = TEN
    /\ scores.beat_sync = TEN

\* ------------------------------------------------------------------------
\* C13: monotone cull penalty
\* ------------------------------------------------------------------------
\* The largest total_generated the cull_rate formula is stepped through
MaxCullTotal == 12

\* C13: for a non-empty list the cull_rate sub-score is the formula's value
\* at the list's own cull_count and total_generated, and for every fixed
\* total_generated > 0 one more cull strictly lowers it or leaves it at 0.
C13_MonotoneCullPenalty ==
    (pc = "scored" /\ vp_result.events # <<>>) =>
        /\ scores.cull_rate = CullRateScore(vp_result.cull_count, Len(vp_events))
        /\ \A tg \in {Len(vp_events)} \cup (1 .. MaxCullTotal) :
              \A cc \in 0 .. tg :
                  \/ CullRateScore(cc + 1, tg) < CullRateScore(cc, tg)
                  \/ /\ CullRateScore(cc, tg) = 0
                     /\ CullRateScore(cc + 1, tg) = 0

\* A scored list that lost one of its three events to the safety cull and
\* sits on the floor, while one cull in twelve would still score above it
C13_Witness ==
    /\ pc = "scored"
    /\ Len(vp_events) = 3
    /\ vp_result.cull_count = 1
    /\ Len(vp_result.events) = 2
    /\ scores.cull_rate = 0
    /\ CullRateScore(1, MaxCullTotal) > CullRateScore(2, MaxCullTotal)
    /\ CullRateScore(2, MaxCullTotal) > 0

\* ------------------------------------------------------------------------
\* Rhythm zone post-processing.  Positions are in px, speeds in px/s.
\* ------------------------------------------------------------------------
GAME_WIDTH == 1920
OBSTACLE_SPAWN_MARGIN == 120
KILL_ZONE_X == 200
ROAD_BASE_SPEED == 1000
CAR_SPEED_FACTOR == 650
SPAWN_X == GAME_WIDTH + OBSTACLE_SPAWN_MARGIN
SWEET_SPOT_X == 960
CAR_CRASH_PROB == 350
GUARDIAN_PROB == 500
ENEMY_PROB == 250
CRASH_WINDOW_MIN_MS == 1000
CRASH_WINDOW_MAX_MS == 3000
CRASH_WINDOW_MID_MS == 2000
GUARDIAN_OFFSET_MIN_MS == 300
GUARDIAN_OFFSET_SPAN_MS == 500
CRASH_BEAT_GUARD_MS == 4000
ENEMY_SNAP_WINDOW_MS == 500

\* A car that moved at the factor itself instead of at 1 - factor
CarSpeedOfFactor == (ROAD_BASE_SPEED * CAR_SPEED_FACTOR) \div SCALE

CAR_SPEED == (ROAD_BASE_SPEED * (SCALE - CAR_SPEED_FACTOR)) \div SCALE

\* min(seq, key = |b - target|) over best followed by seq: the first element
\* at the least distance
ClosestTo(seq, target, best) ==
    LET all == <<best>> \o seq
        nearest == CHOOSE k \in 1 .. Len(all) :
                       /\ \A j \in 1 .. Len(all) :
                              Abs(all[k] - target) <= Abs(all[j] - target)
                       /\ \A j \in 1 .. (k - 1) :
                              Abs(all[j] - target) > Abs(all[k] - target)
    IN  all[nearest]

\* round(x / d) for x >= 0
RoundDiv(x, d) == (2 * x + d) \div (2 * d)

\* The earliest beat of the window, whatever its distance to the car
FirstCandidate(candidate_beats, car_t) == Head(candidate_beats)

\* min(candidate_beats, key = |(car_t - b) - 2.0|)
PickCollisionBeat(candidate_beats, car_t) ==
    ClosestTo(Tail(candidate_beats), car_t - CRASH_WINDOW_MID_MS,
              Head(candidate_beats))

\* The loop of add_car_crash_beats over car_events
RECURSIVE CarCrashBeatsFrom(_, _, _, _)
CarCrashBeatsFrom(car_events, beats, rng, new_events) ==
    IF car_events = <<>> THEN [events |-> new_events, rng |-> rng]
    ELSE LET car_ev == Head(car_events)
             rest == Tail(car_events)
             after == Drawn(rng)
             car_t == car_ev.t
             candidate_beats ==
                 SelectSeq(beats, LAMBDA b : /\ CRASH_WINDOW_MIN_MS <= car_t - b
                                             /\ car_t - b <= CRASH_WINDOW_MAX_MS)
             collision_t == PickCollisionBeat(candidate_beats, car_t)
             time_before_kz == car_t - collision_t
             \* px * 1000
             car_x_at_collision == KILL_ZONE_X * SCALE + CAR_SPEED * time_before_kz
             crash_travel == SPAWN_X * SCALE - car_x_at_collision
             \* seconds * 1000 = px * 1000 / (px/s), rounded to ms
             crash_lead == RoundDiv(crash_travel, ROAD_BASE_SPEED)
         IN  IF random(rng) > CAR_CRASH_PROB
             THEN CarCrashBeatsFrom(rest, beats, after, new_events)
             ELSE IF candidate_beats = <<>>
             THEN CarCrashBeatsFrom(rest, beats, after, new_events)
             ELSE IF crash_travel <= 0
             THEN CarCrashBeatsFrom(rest, beats, after, new_events)
             ELSE CarCrashBeatsFrom(rest, beats, after,
                      Append(new_events,
                             [t |-> collision_t, lane |-> car_ev.lane,
                              type |-> "car_crash_beat", lead |-> crash_lead]))

\* add_car_crash_beats(events, beat_data, rng): the events and the rng after
add_car_crash_beats(events, bd, rng) ==
    LET car_events == SelectSeq(events, LAMBDA e : e.type = "car")
        r == CarCrashBeatsFrom(car_events, bd.beats, rng, <<>>)
    IN  [events |-> SortByT(events \o r.events), rng |-> r.rng]

\* The loop of add_guardians over pickup_events
RECURSIVE GuardiansFrom(_, _, _)
GuardiansFrom(pickup_events, rng, new_guardians) ==
    IF pickup_events = <<>> THEN [events |-> new_guardians, rng |-> rng]
    ELSE LET pickup_ev == Head(pickup_events)
             rest == Tail(pickup_events)
             after1 == Drawn(rng)
             after2 == Drawn(after1)
             offset == GUARDIAN_OFFSET_MIN_MS
                       + (random(after1) * GUARDIAN_OFFSET_SPAN_MS) \div SCALE
             guardian_t == pickup_ev.t - offset
         IN  IF random(rng) > GUARDIAN_PROB
             THEN GuardiansFrom(rest, after1, new_guardians)
             ELSE IF guardian_t < INTRO_SKIP_MS
             THEN GuardiansFrom(rest, after2, new_guardians)
             ELSE GuardiansFrom(rest, after2,
                      Append(new_guardians,
                             CourseEvent(guardian_t, pickup_ev.lane, "guardian")))

add_guardians(events, rng) ==
    LET pickup_events == SelectSeq(events, LAMBDA e : e.type = "pickup_ammo")
        r == GuardiansFrom(pickup_events, rng, <<>>)
    IN  [events |-> SortByT(events \o r.events), rng |-> r.rng]

\* A car that is never taken to have a companion
never_crash_beat(events, car_ev) == FALSE

\* any(e.type == 'car_crash_beat' and e.lane == car_ev.lane
\*     and abs(e.t - car_ev.t) < 4.0 for e in events)
has_crash_beat(events, car_ev) ==
    \E k \in 1 .. Len(events) :
        /\ events[k].type = "car_crash_beat"
        /\ events[k].lane = car_ev.lane
        /\ Abs(events[k].t - car_ev.t) < CRASH_BEAT_GUARD_MS

\* The loop of add_enemy_cars: i runs over the positions of events, the
\* positions that held a car when the function was entered are visited;
\* a visited car is changed in place.
RECURSIVE EnemyCarsFrom(_, _, _, _)
EnemyCarsFrom(events, i, beats, rng) ==
    IF i > Len(events) THEN [events |-> events, rng |-> rng]
    ELSE IF events[i].type # "car" THEN EnemyCarsFrom(events, i + 1, beats, rng)
    ELSE LET car_ev == events[i]
             after == Drawn(rng)
             \* microseconds
             sweet_arrival == car_ev.t * SCALE
                              - ((SWEET_SPOT_X - KILL_ZONE_X) * SCALE * SCALE)
                                    \div CAR_SPEED
             snap_t == ClosestTo([k \in 1 .. Len(beats) |-> beats[k] * SCALE],
                                 sweet_arrival, beats[1] * SCALE)
         IN  IF random(rng) > ENEMY_PROB
             THEN EnemyCarsFrom(events, i + 1, beats, after)
             ELSE IF has_crash_beat(events, car_ev)
             THEN EnemyCarsFrom(events, i + 1, beats, after)
             ELSE IF beats = <<>>
             THEN EnemyCarsFrom(events, i + 1, beats, after)
             ELSE IF Abs(snap_t - sweet_arrival) > ENEMY_SNAP_WINDOW_MS * SCALE
             THEN EnemyCarsFrom(events, i + 1, beats, after)
             ELSE EnemyCarsFrom(
                      [events EXCEPT ![i] = [@ EXCEPT !.type = "enemy_car",
                                                      !.t = snap_t \div SCALE]],
                      i + 1, beats, after)

add_enemy_cars(events, bd, rng) ==
    LET r == EnemyCarsFrom(events, 1, bd.beats, rng)
    IN  [events |-> SortByT(r.events), rng |-> r.rng]

\* The three post-processing calls of generate_course, one action each
AddCarCrashBeats ==
    /\ pc = "add_car_crash_beats"
    /\ LET r == add_car_crash_beats(champion_events, beat_data, post_rng)
       IN  champion_events' = r.events /\ post_rng' = r.rng
    /\ pc' = "add_guardians"
    /\ UNCHANGED <<helperVars, vpVars, scVars, argVars, loopVars, objVars, champion_score,
                   champion_seed, champion_attempts, runVars, twister>>

AddGuardians ==
    /\ pc = "add_guardians"
    /\ LET r == add_guardians(champion_events, post_rng)
       IN  champion_events' = r.events /\ post_rng' = r.rng
    /\ pc' = "add_enemy_cars"
    /\ UNCHANGED <<helperVars, vpVars, scVars, argVars, loopVars, objVars, champion_score,
                   champion_seed, champion_attempts, runVars, twister>>

AddEnemyCars ==
    /\ pc = "add_enemy_cars"
    /\ LET r == add_enemy_cars(champion_events, beat_data, post_rng)
       IN  champion_events' = r.events /\ post_rng' = r.rng
    /\ pc' = "return"
    /\ UNCHANGED <<helperVars, vpVars, scVars, argVars, loopVars, objVars, champion_score,
                   champion_seed, champion_attempts, runVars, twister>>

\* ------------------------------------------------------------------------
\* Specification of the post-processing of a champion: the champions are
\* lists that are playable for the difficulty; SpecPost follows Return
\* ------------------------------------------------------------------------
MaxChampion == 2
PostTimes == {4200, 10000}
PostTypes == {"crash", "car", "pickup_ammo"}
PostLanes == {1, 2}

\* The preset that asks for three safe lanes and the one that asks for two
PostDifficulties == {"easy", "normal"}

\* One beat 2 s before the late car; no beat; beats around both cars
PostBeatMaps ==
    {BeatMap(1000, 12000, <<8000>>, <<>>, <<>>, <<>>, <<>>),
     BeatMap(1000, 12000, <<>>, <<>>, <<>>, <<>>, <<>>),
     BeatMap(1000, 12000, <<1500, 7800, 8100>>, <<>>, <<>>, <<>>, <<>>)}

\* The generators of the post-processing: the family, and three whose
\* streams put a low roll after a low one, after a high one, and two
\* neighbouring values between two low rolls
PostTwisters ==
    Twisters \cup {[s \in Seeds |-> Stream(s, stride)] : stride \in {6, 7, 10}}

InitPost ==
    /\ pc = "add_car_crash_beats"
    /\ vp_events = <<>> /\ vp_min_safe = 1 /\ vp_result = NoResult
    /\ beat_data \in PostBeatMaps
    /\ scores = ScoreBreakdown
    /\ difficulty \in PostDifficulties
    /\ max_attempts = MaxAttempts /\ target_score = 0
    /\ params = DifficultyParams /\ attempt = 0 /\ attempt_log = <<>>
    /\ \E n \in 1 .. MaxChampion :
         \E ts \in {x \in [1 .. n -> PostTimes] :
                       \A i \in 1 .. (n - 1) : x[i] <= x[i + 1]},
            ls \in [1 .. n -> PostLanes], ty \in [1 .. n -> PostTypes] :
            /\ champion_events = [i \in 1 .. n |-> CourseEvent(ts[i], ls[i], ty[i])]
            /\ Playable(champion_events, DIFFICULTY_PRESETS[difficulty].min_safe_lanes)
    /\ champion_score = ScoreBreakdown
    /\ champion_seed \in 1 .. MaxAttempts
    /\ champion_attempts = champion_seed
    /\ course = NoCourse /\ run = 1 /\ first_course = NoCourse
    /\ twister \in PostTwisters
    /\ post_rng = random_Random(PostSeed(champion_seed))
    /\ IdleObjects
    /\ IdleHelpers


\* ------------------------------------------------------------------------
\* C9: Scenario C
\* ------------------------------------------------------------------------
\* The champion is the single car of Scenario C (t = 10.0, lane 2) plus
\* what add_car_crash_beats added, and the only beat is at t = 8.0.
ScenarioC ==
    /\ pc = "add_guardians"
    /\ beat_data.beats = <<8000>>
    /\ SelectSeq(champion_events, LAMBDA e : e.type # "car_crash_beat")
           = <<CourseEvent(10000, 2, "car")>>

CrashBeats == SelectSeq(champion_events, LAMBDA e : e.type = "car_crash_beat")

\* C9 as amended: in Scenario C a triggered add_car_crash_beats emits one
\* car_crash_beat at t = 8.0 in lane 2 with lead
\* (2040 - (200 + 350 * 2)) / 1000 = 1.14.
C9_ScenarioCLead ==
    (ScenarioC /\ CrashBeats # <<>>) =>
        CrashBeats = <<[t |-> 8000, lane |-> 2, type |-> "car_crash_beat",
                        lead |-> 1140]>>

\* C9 as stated: the lead of that event is 1.29.
C9_ScenarioCLeadAsStated ==
    (ScenarioC /\ CrashBeats # <<>>) =>
        CrashBeats = <<[t |-> 8000, lane |-> 2, type |-> "car_crash_beat",
                        lead |-> 1290]>>

\* Scenario C with the roll triggered
C9_Witness == ScenarioC /\ Len(CrashBeats) = 1


\* ------------------------------------------------------------------------
\* generate_events
\* ------------------------------------------------------------------------
BOUNCE == <<0, 1, 2, 3, 3, 2, 1, 0>>

\* round(x / d) for x >= 0, d > 0: Python rounds halves to the even integer
RoundHalfEven(x, d) ==
    LET q == x \div d
        rem == x % d
    IN  IF 2 * rem > d \/ (2 * rem = d /\ q % 2 = 1) THEN q + 1 ELSE q

\* rng.randint(0, n - 1) and rng.choice of n items: one value of the stream
RandBelow(rng, n) == (random(rng) * n) \div SCALE

\* A lane taken from the stream alone
stream_lane(event_index, p, rng) ==
    [lane |-> (random(rng) * LANE_COUNT) \div SCALE, rng |-> Drawn(rng)]

\* wave_lane(event_index, params, rng): the lane and the rng after
wave_lane(event_index, p, rng) ==
    LET base_lane == BOUNCE[(event_index % Len(BOUNCE)) + 1]
        after1 == Drawn(rng)
        shift == <<-1, 1>>[RandBelow(after1, 2) + 1]
    IN  IF random(rng) < p.wave_noise
        THEN [lane |-> Max2(0, Min2(LANE_COUNT - 1, base_lane + shift)),
              rng |-> Drawn(after1)]
        ELSE [lane |-> Max2(0, Min2(LANE_COUNT - 1, base_lane)), rng |-> after1]

\* pick_type(..., is_pickup = False): the type and the rng after
pick_type(bass_val, perc_val, harm_val, p, rng) ==
    LET \* the three values are fractions over one denominator; twice their
        \* numerators, so that harm_val * 0.5 stays an integer
        dominant == Max2(2 * bass_val.num, Max2(2 * perc_val.num, harm_val.num))
        by_bass == /\ dominant = 2 * bass_val.num
                   /\ bass_val.num * SCALE > 300 * bass_val.den
        by_perc == /\ ~by_bass
                   /\ dominant = 2 * perc_val.num
                   /\ perc_val.num * SCALE > 300 * perc_val.den
        after1 == IF by_bass \/ by_perc THEN Drawn(rng) ELSE rng
        roll == random(after1)
        total_w == p.crash_weight + p.car_weight + p.slow_weight
        fallback ==
            IF roll * total_w < p.crash_weight * SCALE THEN "crash"
            ELSE IF roll * total_w < (p.crash_weight + p.car_weight) * SCALE
            THEN "car" ELSE "slow"
    IN  IF by_bass /\ random(rng) < 550 THEN [type |-> "crash", rng |-> after1]
        ELSE IF by_perc /\ random(rng) < 450 THEN [type |-> "car", rng |-> after1]
        ELSE [type |-> fallback, rng |-> Drawn(after1)]

\* Every beat is a candidate
EveryBeat(beats, beat_skip, playable_end) == beats

\* Step 1: the loop over enumerate(beats) keeps, in order, the beats that
\* pass both tests; i is the 0-based index
CandidateBeats(beats, beat_skip, playable_end) ==
    LET kept == SelectSeq([k \in 1 .. Len(beats) |-> k - 1],
                          LAMBDA i : ~(\/ beats[i + 1] < INTRO_SKIP_MS
                                       \/ beats[i + 1] > playable_end
                                       \/ i % beat_skip # 0))
    IN  [k \in 1 .. Len(kept) |-> beats[kept[k] + 1]]

\* Step 2: s_start <= b < s_end with section_dur = span / NUM_SECTIONS
SectionBeats(candidate_beats, s, span) ==
    SelectSeq(candidate_beats,
              LAMBDA b : /\ s * span <= NUM_SECTIONS * (b - INTRO_SKIP_MS)
                         /\ NUM_SECTIONS * (b - INTRO_SKIP_MS) < (s + 1) * span)

\* sample_at(energy, s_mid, res_ms) for section s
SectionEnergy(bd, s, span) ==
    sample_at(bd.energy,
              INTRO_SKIP_MS + ((2 * s + 1) * span) \div (2 * NUM_SECTIONS),
              bd.resolution_ms)

\* The quota of section s; energy_sum is sum(section_energies)
SectionQuota(n_beats, s, p, section_energy, energy_sum) ==
    LET \* progress = (s + 0.5) / NUM_SECTIONS; quota_frac is kept exactly,
        \* in units of 1 / (2 * NUM_SECTIONS) thousandths
        quota_frac == 2 * NUM_SECTIONS * p.curve_start
                      + (SCALE - p.curve_start) * (2 * s + 1)
        \* 0.7 + 0.6 * (e / max(0.01, 2 * avg)), avg = energy_sum / NUM_SECTIONS
        energy_scale ==
            IF energy_sum > 0
            THEN 700 + (600 * NUM_SECTIONS * section_energy)
                           \div Max2(10 * NUM_SECTIONS, 2 * energy_sum)
            ELSE SCALE
    IN  Max2(0, RoundHalfEven(((n_beats * p.density * quota_frac) \div 100)
                                  * energy_scale,
                              2 * NUM_SECTIONS * 10 * SCALE * SCALE))

\* scored.sort(key = -score): a stable insertion into a descending list
RECURSIVE InsertByScore(_, _)
InsertByScore(x, s) ==
    IF s = <<>> THEN <<x>>
    ELSE IF x.score > Head(s).score THEN <<x>> \o s
    ELSE <<Head(s)>> \o InsertByScore(x, Tail(s))

RECURSIVE SortByScoreFrom(_, _)
SortByScoreFrom(s, acc) ==
    IF s = <<>> THEN acc
    ELSE Only({SortByScoreFrom(Tail(s), a) : a \in {InsertByScore(Head(s), acc)}})

\* picked.sort(key = time)
RECURSIVE InsertByBeat(_, _)
InsertByBeat(x, s) ==
    IF s = <<>> THEN <<x>>
    ELSE IF x.bt < Head(s).bt THEN <<x>> \o s
    ELSE <<Head(s)>> \o InsertByBeat(x, Tail(s))

RECURSIVE SortByBeatFrom(_, _)
SortByBeatFrom(s, acc) ==
    IF s = <<>> THEN acc
    ELSE Only({SortByBeatFrom(Tail(s), a) : a \in {InsertByBeat(Head(s), acc)}})

\* Step 3, the inner loop: the scored beats of a section; e_val is kept as
\* a fraction and the score in units of 1 / (1000 * e_val.den)
RECURSIVE ScoreBeatsFrom(_, _, _, _, _)
ScoreBeatsFrom(s_beats, bd, p, rng, scored) ==
    IF s_beats = <<>> THEN [scored |-> scored, rng |-> rng]
    ELSE LET bt == Head(s_beats)
             e_val == sample_exactly(bd.energy, bt, bd.resolution_ms)
             score == (SCALE - p.energy_influence) * e_val.den
                      + p.energy_influence * e_val.num
                      + (random(rng) * e_val.den) \div 10
         IN  IF e_val.num * SCALE < p.energy_floor * e_val.den
             THEN ScoreBeatsFrom(Tail(s_beats), bd, p, rng, scored)
             ELSE ScoreBeatsFrom(Tail(s_beats), bd, p, Drawn(rng),
                      Append(scored, [bt |-> bt, score |-> score, e_val |-> e_val]))

\* picked = scored sorted by descending score, cut to quota, sorted by time
Picked(scored, quota) ==
    LET sorted == SortByScoreFrom(scored, <<>>)
    IN  SortByBeatFrom(SubSeq(sorted, 1, Min2(quota, Len(sorted))), <<>>)

\* Steps 2 and 3, the loops over the sections: picked beats in time order
RECURSIVE SelectFrom(_, _, _, _, _, _, _)
SelectFrom(s, candidate_beats, bd, p, energy_sum, rng, selected_beats) ==
    IF s >= NUM_SECTIONS THEN [selected |-> selected_beats, rng |-> rng]
    ELSE LET span == PlayableEnd(bd.duration_ms) - INTRO_SKIP_MS
             s_beats == SectionBeats(candidate_beats, s, span)
             quota == SectionQuota(Len(s_beats), s, p,
                                   SectionEnergy(bd, s, span), energy_sum)
         IN  IF quota <= 0 \/ s_beats = <<>>
             THEN SelectFrom(s + 1, candidate_beats, bd, p, energy_sum, rng,
                             selected_beats)
             ELSE Only({SelectFrom(s + 1, candidate_beats, bd, p, energy_sum, r.rng,
                                   selected_beats \o Picked(r.scored, quota)) :
                           r \in {ScoreBeatsFrom(s_beats, bd, p, rng, <<>>)}})

\* Step 4: the loop that fills pickup_indices
RECURSIVE PickupIndicesFrom(_, _, _, _, _)
PickupIndicesFrom(i, n_pickups, n_events, rng, pickup_indices) ==
    IF i >= n_pickups THEN [indices |-> pickup_indices, rng |-> rng]
    ELSE LET \* round(i * spacing + random * spacing * 0.4), spacing = n / n_pickups
             idx == Min2(n_events - 1,
                         RoundHalfEven(n_events * (10 * SCALE * i + 4 * random(rng)),
                                       10 * SCALE * n_pickups))
         IN  PickupIndicesFrom(i + 1, n_pickups, n_events, Drawn(rng),
                               pickup_indices \cup {idx})

\* min(range(LANE_COUNT), key = (lane_counts[l], rng.random())): one value
\* of the stream per lane, the first least pair wins
PickupLane(lane_counts, rng) ==
    LET key(l) == <<lane_counts[l + 1], random([rng EXCEPT !.pos = @ + l])>>
        Less(a, b) == a[1] < b[1] \/ (a[1] = b[1] /\ a[2] < b[2])
    IN  CHOOSE l \in Lanes :
            /\ \A m \in Lanes : ~Less(key(m), key(l))
            /\ \A m \in Lanes : m < l => Less(key(l), key(m))

\* available.sort(key = (abs(l - primary_lane), lane_counts[l])) of the lanes
\* other than primary_lane, in lane order among equals
RECURSIVE AvailableFrom(_, _, _)
AvailableFrom(ls, primary_lane, lane_counts) ==
    IF ls = {} THEN <<>>
    ELSE LET Less(a, b) ==
                 \/ Abs(a - primary_lane) < Abs(b - primary_lane)
                 \/ /\ Abs(a - primary_lane) = Abs(b - primary_lane)
                    /\ \/ lane_counts[a + 1] < lane_counts[b + 1]
                       \/ lane_counts[a + 1] = lane_counts[b + 1] /\ a < b
             first == CHOOSE l \in ls : \A m \in ls \ {l} : Less(l, m)
         IN  <<first>> \o AvailableFrom(ls \ {first}, primary_lane, lane_counts)

\* for lane in chosen_lanes: a type for each lane; st carries events,
\* lane_counts, obstacle_wave_idx and rng
RECURSIVE PlaceCluster(_, _, _, _, _)
PlaceCluster(chosen_lanes, beat_time, bd, p, st) ==
    IF chosen_lanes = <<>> THEN st
    ELSE Only({PlaceCluster(Tail(chosen_lanes), beat_time, bd, p,
                   [st EXCEPT !.events = Append(@, CourseEvent(beat_time,
                                                     Head(chosen_lanes), ty.type)),
                              !.lane_counts[Head(chosen_lanes) + 1] = @ + 1,
                              !.rng = ty.rng]) :
                  ty \in {pick_type(
                              sample_exactly(bd.bass, beat_time, bd.resolution_ms),
                              sample_exactly(bd.percussive, beat_time,
                                             bd.resolution_ms),
                              sample_exactly(bd.harmonic, beat_time, bd.resolution_ms),
                              p, st.rng)}})

\* The pickup branch of step 5
PlacePickup(beat_time, st) ==
    LET pickup_lane == PickupLane(st.lane_counts, st.rng)
        after_lane == [st.rng EXCEPT !.pos = @ + LANE_COUNT]
        etype == IF random(after_lane) > 300 THEN "pickup_ammo" ELSE "pickup_shield"
    IN  [st EXCEPT !.events = Append(@, CourseEvent(beat_time, pickup_lane, etype)),
                   !.lane_counts[pickup_lane + 1] = @ + 1,
                   !.rng = Drawn(after_lane)]

\* A cluster that may take the primary lane again
ChosenLanesWithPrimary(primary_lane, cluster_size, p, lane_counts) ==
    <<primary_lane>> \o [k \in 1 .. (cluster_size - 1) |-> primary_lane]

\* The lanes of a cluster around the primary lane
ChosenLanes(primary_lane, cluster_size, p, lane_counts) ==
    LET available == AvailableFrom(Lanes \ {primary_lane}, primary_lane, lane_counts)
        max_obstacles == LANE_COUNT - p.min_safe_lanes
        extra == Min2(cluster_size - 1, Min2(max_obstacles - 1, Len(available)))
    IN  \* available[:extra]: a negative extra counts from the end
        <<primary_lane>> \o (IF cluster_size > 1
                             THEN SubSeq(available, 1,
                                         IF extra >= 0 THEN extra
                                         ELSE Max2(0, Len(available) + extra))
                             ELSE <<>>)

\* The obstacle branch of step 5
PlaceObstacle(beat_time, e_val, wave_offset, bd, p, st) ==
    LET roll2 == /\ p.max_per_cluster >= 2
                 /\ e_val.num * SCALE > p.cluster2_energy * e_val.den
        after2 == IF roll2 THEN Drawn(st.rng) ELSE st.rng
        size2 == IF roll2 /\ random(st.rng) < p.cluster2_prob THEN 2 ELSE 1
        roll3 == /\ p.max_per_cluster >= 3
                 /\ e_val.num * SCALE > p.cluster3_energy * e_val.den
        after3 == IF roll3 THEN Drawn(after2) ELSE after2
        cluster_size == IF roll3 /\ random(after2) < p.cluster3_prob THEN 3
                        ELSE size2
    IN  Only({[placed EXCEPT !.obstacle_wave_idx = @ + 1] :
                 placed \in {PlaceCluster(
                                 ChosenLanes(w.lane, cluster_size, p, st.lane_counts),
                                 beat_time, bd, p, [st EXCEPT !.rng = w.rng]) :
                             w \in {wave_lane(st.obstacle_wave_idx + wave_offset,
                                              p, after3)}}})

\* Step 5: the loop over enumerate(selected_beats); i is the 0-based index
RECURSIVE PlaceFrom(_, _, _, _, _, _, _)
PlaceFrom(i, selected_beats, pickup_indices, wave_offset, bd, p, st) ==
    IF i >= Len(selected_beats) THEN st
    ELSE Only({PlaceFrom(i + 1, selected_beats, pickup_indices, wave_offset, bd, p,
                         next) :
                  next \in {IF i \in pickup_indices
                            THEN PlacePickup(selected_beats[i + 1].bt, st)
                            ELSE PlaceObstacle(selected_beats[i + 1].bt,
                                               selected_beats[i + 1].e_val,
                                               wave_offset, bd, p, st)}})

\* The rounded share alone, which is 0 for a short list
RoundedPickups(n_events, p) == RoundHalfEven(n_events * p.pickup_ratio, SCALE)

\* n_pickups = max(1, round(n_events * params.pickup_ratio))
NPickups(n_events, p) == Max2(1, RoundHalfEven(n_events * p.pickup_ratio, SCALE))

\* Steps 4 and 5 on the selected beats
EventsOf(sel, bd, p) ==
    LET n_events == Len(sel.selected)
        n_pickups == NPickups(n_events, p)
    IN  Only({PlaceFrom(0, sel.selected, pk.indices,
                        RandBelow(pk.rng, Len(BOUNCE)), bd, p,
                        [events |-> <<>>, lane_counts |-> [l \in 1 .. LANE_COUNT |-> 0],
                         obstacle_wave_idx |-> 0, rng |-> Drawn(pk.rng)]).events :
                 pk \in {IF n_pickups > 0 /\ n_events > 0
                         THEN PickupIndicesFrom(0, n_pickups, n_events, sel.rng, {})
                         ELSE [indices |-> {}, rng |-> sel.rng]}})

\* generate_events(beat_data, params, rng): the list of events
generate_events(bd, p, rng) ==
    LET playable_end == PlayableEnd(bd.duration_ms)
        span == playable_end - INTRO_SKIP_MS
        energy_sum == SumSeq([k \in 1 .. NUM_SECTIONS |->
                                 SectionEnergy(bd, k - 1, span)])
    IN  Only({IF candidate_beats = <<>> THEN <<>>
              ELSE Only({EventsOf(sel, bd, p) :
                            sel \in {SelectFrom(0, candidate_beats, bd, p, es, rng,
                                                <<>>) : es \in {energy_sum}}}) :
                 candidate_beats \in {CandidateBeats(bd.beats, p.beat_skip,
                                                      playable_end)}})

\* ------------------------------------------------------------------------
\* adjust_params(params, scores): a deficit is 10 - score in thousandths, so
\* 0.02 * deficit is deficit / 50 thousandths
\* ------------------------------------------------------------------------
\* A rule that fires at its bar too
NotAbove(score, bar) == score <= bar

\* scores.x < bar: the test that fires a rule
Below(score, bar) == score < bar

\* The floor of a field left out
Unclamped(lo, x) == x

\* max(lo, x) and min(hi, x), the floor and the ceiling of a field
AtLeast(lo, x) == Max2(lo, x)
AtMost(hi, x) == Min2(hi, x)

\* x / d of a product of thousandths, cut toward zero on both sides
TruncDiv(x, d) == IF x >= 0 THEN x \div d ELSE -((-x) \div d)

adjust_params(p, sc) ==
    LET d_flow == TEN - sc.flow
        d_curve == TEN - sc.difficulty_curve
        d_type == TEN - sc.type_variety
        d_lane == TEN - sc.lane_coverage
        d_energy == TEN - sc.energy_match
        d_cull == TEN - sc.cull_rate
        p1 == IF Below(sc.flow, 9500)
              THEN [p EXCEPT !.wave_noise = AtLeast(0, @ - d_flow \div 50),
                             !.wave_period = AtMost(24, @ + 1)]
              ELSE p
        p2 == IF Below(sc.difficulty_curve, 9000)
              THEN [p1 EXCEPT !.curve_start = AtLeast(20, @ - d_curve \div 50)]
              ELSE p1
        \* 3 * avg_w; (avg_w - w) * 0.08 * deficit
        sum_w == p2.crash_weight + p2.car_weight + p2.slow_weight
        toward(w) == w + TruncDiv((sum_w - 3 * w) * 8 * d_type, 300 * SCALE)
        p3 == IF Below(sc.type_variety, 9000)
              THEN [p2 EXCEPT !.crash_weight = toward(@),
                              !.car_weight = toward(@),
                              !.slow_weight = toward(@),
                              !.pickup_ratio =
                                  AtLeast(80, AtMost(450, @ + d_type \div 100))]
              ELSE p2
        p4 == IF Below(sc.lane_coverage, 9000)
              THEN [p3 EXCEPT !.wave_amplitude = LANE_COUNT - 1,
                              !.wave_noise = AtLeast(0, @ - d_lane \div 50)]
              ELSE p3
        p5 == IF Below(sc.energy_match, 9000)
              THEN [p4 EXCEPT !.energy_influence =
                                  AtMost(950, @ + (3 * d_energy) \div 50),
                              !.energy_floor = AtMost(350, @ + d_energy \div 50)]
              ELSE p4
    IN  IF Below(sc.cull_rate, 9500)
        THEN [p5 EXCEPT !.density = AtLeast(250, @ - d_cull \div 50),
                        !.cluster2_prob = AtLeast(50, @ - (3 * d_cull) \div 100),
                        !.cluster3_prob = AtLeast(20, @ - (3 * d_cull) \div 100)]
        ELSE p5

\* adjust_params called with the object at id: the copy is made, the rules
\* write its fields, and it is returned
adjust_params_of(h, id, sc) ==
    LET p == deepcopy(h, id)
    IN  [heap |-> [p.heap EXCEPT ![p.at] = adjust_params(@, sc)], at |-> p.at]

\* ------------------------------------------------------------------------
\* generate_course
\* ------------------------------------------------------------------------
\* The fields of beat_data that generate_events reads on entry, and the
\* fields the returned document reads
GeneratorFields ==
    {"resolution_ms", "duration_ms", "beats", "bass", "percussive", "harmonic",
     "energy"}
DocumentFields == {"duration_ms", "bpm"}

\* ScoreBreakdown.to_dict: round(x, 2), in hundredths
to_dict(sc) ==
    [total |-> RoundHalfEven(total(sc), 10 * SCALE),
     beat_sync |-> RoundHalfEven(sc.beat_sync, 10),
     flow |-> RoundHalfEven(sc.flow, 10),
     difficulty_curve |-> RoundHalfEven(sc.difficulty_curve, 10),
     type_variety |-> RoundHalfEven(sc.type_variety, 10),
     lane_coverage |-> RoundHalfEven(sc.lane_coverage, 10),
     energy_match |-> RoundHalfEven(sc.energy_match, 10),
     cull_rate |-> RoundHalfEven(sc.cull_rate, 10)]

\* A seed taken from what earlier calls left behind in the process
SeedFromAmbientState(a) == ((a + run) % MaxAttempts) + 1

\* seed = attempt + 1
AttemptSeed(a) == a + 1

\* A challenger that also takes the crown on a tie
BeatsOrTies(new_total, best_total) == new_total >= best_total

\* scores.total > champion_score.total
Beats(new_total, best_total) == new_total > best_total

\* A loop that never breaks
NeverReached(new_total, target) == FALSE

\* scores.total >= target_score, the total in millionths
ReachedTarget(new_total, target) == new_total >= target * SCALE

\* for attempt in range(max_attempts): the body is entered once more
InLoop == pc = "loop" /\ attempt < max_attempts

\* The loop has just ended and the champion is still as the loop left it
ChampionChosen == pc = "break" \/ (pc = "loop" /\ attempt >= max_attempts)

\* One iteration of the loop: generate, validate, score, crown, and then
\* either break or adjust the parameters for the next attempt.
Attempt ==
    /\ InLoop
    /\ GeneratorFields \subseteq DOMAIN beat_data
    /\ LET seed == AttemptSeed(attempt)
           rng == random_Random(seed)
       IN  \E events \in {generate_events(beat_data, params, rng)} :
           \E v \in {validate_paths(events, params.min_safe_lanes)} :
           \E sc \in {compute_scores(v.events, beat_data, v.cull_count, Len(events))} :
           /\ vp_events' = events
           /\ vp_min_safe' = params.min_safe_lanes
           /\ vp_result' = v
           /\ scores' = sc
           /\ attempt_log' = Append(attempt_log,
                                    [seed |-> seed, params |-> params,
                                     events |-> v.events, scores |-> sc])
           /\ IF Beats(total(sc), total(champion_score))
              THEN /\ champion_events' = v.events
                   /\ champion_score' = sc
                   /\ champion_seed' = seed
                   /\ champion_attempts' = attempt + 1
              ELSE UNCHANGED championVars
           /\ IF ReachedTarget(total(sc), target_score)
              THEN pc' = "break" /\ UNCHANGED <<params, attempt, objVars>>
              ELSE /\ \E adjusted \in {adjust_params_of(heap, params_at, sc)} :
                          /\ heap' = adjusted.heap
                          /\ params_at' = adjusted.at
                          /\ params' = adjusted.heap[adjusted.at]
                   /\ UNCHANGED base_params
                   /\ attempt' = attempt + 1
                   /\ pc' = "loop"
    /\ UNCHANGED <<helperVars, beat_data, argVars, runVars, rngVars>>

\* generate_events raises KeyError on its first lines
AttemptRaises ==
    /\ InLoop
    /\ ~(GeneratorFields \subseteq DOMAIN beat_data)
    /\ pc' = "KeyError"
    /\ UNCHANGED <<helperVars, vpVars, scVars, gcVars>>

\* The loop is over: post_rng is made if there is a champion to process
LeaveLoop ==
    /\ ChampionChosen
    /\ IF champion_events # <<>>
       THEN /\ post_rng' = random_Random(PostSeed(champion_seed))
            /\ pc' = "add_car_crash_beats"
       ELSE /\ pc' = "return"
            /\ UNCHANGED post_rng
    /\ UNCHANGED <<helperVars, vpVars, scVars, argVars, loopVars, championVars, runVars,
                   twister, objVars>>

Course ==
    [status |-> "returned", difficulty |-> difficulty, name |-> "Default",
     duration_s |-> beat_data.duration_ms, bpm |-> beat_data.bpm, version |-> 1,
     seed |-> champion_seed, score |-> to_dict(champion_score),
     attempts |-> champion_attempts, events |-> champion_events]

Return ==
    /\ pc = "return"
    /\ DocumentFields \subseteq DOMAIN beat_data
    /\ course' = Course
    /\ pc' = "done"
    /\ UNCHANGED <<helperVars, vpVars, scVars, argVars, loopVars, championVars, run,
                   first_course, rngVars, objVars>>

\* The return statement raises KeyError
ReturnRaises ==
    /\ pc = "return"
    /\ ~(DocumentFields \subseteq DOMAIN beat_data)
    /\ pc' = "KeyError"
    /\ UNCHANGED <<helperVars, vpVars, scVars, gcVars>>

\* The post-processing of a champion and the return of its Course
NextPost == AddCarCrashBeats \/ AddGuardians \/ AddEnemyCars \/ Return

SpecPost == InitPost /\ [][NextPost]_vars

\* generate_course is called a second time with the same arguments: its
\* locals are made anew
CallAgain ==
    /\ pc = "done"
    /\ run = 1
    /\ run' = 2
    /\ first_course' = course
    /\ course' = NoCourse
    /\ \E entered \in {EnterCourse(ModuleObjects(heap), difficulty)} :
           /\ heap' = entered.heap
           /\ base_params' = entered.base_params
           /\ params_at' = entered.params
           /\ params' = entered.heap[entered.params]
    /\ attempt' = 0
    /\ attempt_log' = <<>>
    /\ champion_events' = <<>>
    /\ champion_score' = ScoreBreakdown
    /\ champion_seed' = 0
    /\ champion_attempts' = 0
    /\ post_rng' = NoRng
    /\ vp_events' = <<>> /\ vp_min_safe' = params'.min_safe_lanes
    /\ vp_result' = NoResult /\ scores' = ScoreBreakdown
    /\ pc' = "loop"
    /\ UNCHANGED <<helperVars, beat_data, argVars, twister>>

\* ------------------------------------------------------------------------
\* Specification of generate_course, called twice with the same arguments
\* ------------------------------------------------------------------------
\* 12 s of music with a beat every half second and rising energy
LoudMap ==
    BeatMap(1000, 12000, [k \in 1 .. 24 |-> (k - 1) * 500],
            <<30, 40, 60, 60, 80, 120, 160, 200, 230, 250, 255, 255, 255>>,
            <<200, 40, 200, 40, 200, 40, 200, 40, 200, 40, 200, 40, 200>>,
            <<40, 180, 40, 180, 40, 180, 40, 180, 40, 180, 40, 180, 40>>,
            <<90, 90, 90, 90, 250, 250, 90, 90, 90, 90, 90, 90, 90>>)

\* Four beats a second under an energy that swells and falls
DenseMap ==
    BeatMap(500, 12000, [k \in 1 .. 48 |-> (k - 1) * 250],
            <<60, 60, 90, 90, 120, 120, 160, 160, 200, 220, 240, 255, 255,
              255, 240, 220, 255, 255, 200, 180, 255, 255, 120, 90, 60>>,
            <<220, 220, 30, 30, 220, 220, 30, 30, 220, 220, 30, 30, 220,
              220, 30, 30, 220, 220, 30, 30, 220, 220, 30, 30, 220>>,
            <<30, 30, 200, 200, 30, 30, 200, 200, 30, 30, 200, 200, 30,
              30, 200, 200, 30, 30, 200, 200, 30, 30, 200, 200, 30>>,
            [k \in 1 .. 25 |-> 128])

\* The same beats under an energy below every preset's energy_floor
QuietMap ==
    BeatMap(1000, 12000, [k \in 1 .. 24 |-> (k - 1) * 500],
            [k \in 1 .. 13 |-> 20], <<>>, <<>>, <<>>)

\* Scenario B: no beats
EmptyBeatsMap == BeatMap(1000, 12000, <<>>, [k \in 1 .. 13 |-> 200], <<>>, <<>>, <<>>)

\* A document that lacks one field
Without(bd, field) == [f \in (DOMAIN bd) \ {field} |-> bd[f]]

CourseBeatMaps ==
    {LoudMap, DenseMap, QuietMap, EmptyBeatsMap}
        \cup {Without(LoudMap, f) : f \in GeneratorFields \cup DocumentFields}

TargetScores == {0, 9000, 9600}

InitCourse ==
    /\ pc = "loop"
    /\ beat_data \in CourseBeatMaps
    /\ difficulty \in DOMAIN DIFFICULTY_PRESETS
    /\ max_attempts \in 0 .. MaxAttempts
    /\ target_score \in TargetScores
    /\ twister \in Twisters
    /\ heap = EnterCourse(ModuleHeap, difficulty).heap
    /\ base_params = EnterCourse(ModuleHeap, difficulty).base_params
    /\ params_at = EnterCourse(ModuleHeap, difficulty).params
    /\ params = heap[params_at]
    /\ attempt = 0
    /\ attempt_log = <<>>
    /\ champion_events = <<>>
    /\ champion_score = ScoreBreakdown
    /\ champion_seed = 0
    /\ champion_attempts = 0
    /\ course = NoCourse
    /\ run = 1
    /\ first_course = NoCourse
    /\ post_rng = NoRng
    /\ vp_events = <<>> /\ vp_min_safe = params.min_safe_lanes
    /\ vp_result = NoResult /\ scores = ScoreBreakdown
    /\ IdleHelpers

NextCourse ==
    \/ Attempt
    \/ AttemptRaises
    \/ LeaveLoop
    \/ AddCarCrashBeats
    \/ AddGuardians
    \/ AddEnemyCars
    \/ Return
    \/ ReturnRaises
    \/ CallAgain

SpecCourse == InitCourse /\ [][NextCourse]_vars

\* The control state of a call, which every step of NextCourse changes
control == <<pc, attempt, run>>

\* Some statement of generate_course is next: the guards of Attempt and
\* AttemptRaises, of LeaveLoop, of the three post-processing calls, of
\* Return and ReturnRaises, and of CallAgain
Pending ==
    \/ InLoop
    \/ ChampionChosen
    \/ pc \in {"add_car_crash_beats", "add_guardians", "add_enemy_cars"}
    \/ pc = "return"
    \/ pc = "done" /\ run = 1

\* Control moves on from a pending statement
Advance ==
    /\ Pending
    /\ \E p \in {"loop", "break", "add_car_crash_beats", "add_guardians",
                 "add_enemy_cars", "return", "done", "KeyError"},
          a \in 0 .. MaxAttempts, r \in {1, 2} :
          pc' = p /\ attempt' = a /\ run' = r

\* The code is sequential and waits for nothing: a pending statement is
\* executed.  Advance is enabled exactly when a step of NextCourse is, and
\* every step of NextCourse is a step of Advance that changes control.
SpecCourseLive == SpecCourse /\ WF_control(Advance)

\* ------------------------------------------------------------------------
\* Properties of generate_course
\* ------------------------------------------------------------------------
AllFields == GeneratorFields \cup DocumentFields

LoopEnded ==
    \/ ChampionChosen
    \/ pc \in {"add_car_crash_beats", "add_guardians", "add_enemy_cars", "return",
               "done"}

TotalOf(k) == total(attempt_log[k].scores)

\* The earliest attempt among those of the greatest total
BestAttempt ==
    CHOOSE k \in 1 .. Len(attempt_log) :
        /\ \A j \in 1 .. Len(attempt_log) : TotalOf(j) <= TotalOf(k)
        /\ \A j \in 1 .. (k - 1) : TotalOf(j) < TotalOf(k)

ChampionIs(k) ==
    /\ champion_attempts = k
    /\ champion_seed = attempt_log[k].seed
    /\ champion_score = attempt_log[k].scores
    /\ ChampionChosen => champion_events = attempt_log[k].events

ChampionIsDefault ==
    /\ champion_attempts = 0
    /\ champion_seed = 0
    /\ champion_score = ScoreBreakdown
    /\ champion_events = <<>>

\* C3: the second of two calls with the same arguments returns the document
\* the first call returned.
C3_Determinism == (pc = "done" /\ run = 2) => course = first_course

\* Two calls have returned a course that took more than one attempt and
\* whose events include some that post-processing added or changed
C3_Witness ==
    /\ pc = "done" /\ run = 2
    /\ course.attempts > 1
    /\ \E i \in 1 .. Len(course.events) :
           course.events[i].type \in {"car_crash_beat", "guardian", "enemy_car"}

\* C4 as amended: when the loop has ended and some attempt had a total
\* above 0, the champion is the earliest attempt of the greatest total; when
\* no attempt had, the champion is still the default.
C4_ChampionSelection ==
    LoopEnded =>
        IF \E k \in 1 .. Len(attempt_log) : TotalOf(k) > 0
        THEN ChampionIs(BestAttempt)
        ELSE ChampionIsDefault

\* C4 as stated: when the loop has ended after at least one attempt, the
\* champion is the earliest attempt of the greatest total.
C4_ChampionSelectionAsStated ==
    (LoopEnded /\ attempt_log # <<>>) => ChampionIs(BestAttempt)

\* The loop ended with a champion that is not the first attempt
C4_Witness ==
    /\ ChampionChosen
    /\ Len(attempt_log) = MaxAttempts
    /\ BestAttempt > 1
    /\ ChampionIs(BestAttempt)

\* C5, the part that holds in every state: the attempts run so far are
\* seeded 1, 2, 3, ... in order and are at most max_attempts; every attempt
\* but the last one stayed below target_score; the loop has ended only on a
\* reached target or on max_attempts attempts; after an attempt that reached
\* the target the parameters are the ones it ran with, and it is the
\* champion when target_score > 0.
StoppingRule ==
    LET n == Len(attempt_log)
        reached(k) == TotalOf(k) >= target_score * SCALE
    IN  /\ n <= max_attempts
        /\ \A k \in 1 .. n : attempt_log[k].seed = k
        /\ \A k \in 1 .. (n - 1) : ~reached(k)
        /\ LoopEnded => (n = max_attempts \/ (n > 0 /\ reached(n)))
        /\ (n > 0 /\ reached(n)) =>
              /\ pc # "loop"
              /\ params = attempt_log[n].params
              /\ target_score > 0 => ChampionIs(n)
        /\ (n > 0 /\ ~reached(n)) =>
              params = adjust_params(attempt_log[n].params, attempt_log[n].scores)

\* Both calls are over
Terminated == pc = "KeyError" \/ (pc = "done" /\ run = 2)

\* C5: the stopping rule holds throughout and every call terminates.
C5_StoppingRule == []StoppingRule /\ <>Terminated

\* The loop stopped on a positive target at an attempt after the first
C5_Witness ==
    /\ pc = "break"
    /\ target_score > 0
    /\ Len(attempt_log) > 1

\* C7: a call raises only for a missing field, never for a missed target;
\* every attempt whose validated list is non-empty has a total above 0 that
\* the champion's total equals or exceeds; when the loop has ended the
\* champion is the default only if every attempt's validated list was empty.
C7_BestChampionReturned ==
    /\ pc = "KeyError" => ~(AllFields \subseteq DOMAIN beat_data)
    /\ \A k \in 1 .. Len(attempt_log) :
          attempt_log[k].events # <<>> =>
              /\ TotalOf(k) > 0
              /\ total(champion_score) >= TotalOf(k)
              /\ champion_attempts > 0
    /\ (LoopEnded /\ ChampionIsDefault) =>
          \A k \in 1 .. Len(attempt_log) : attempt_log[k].events = <<>>
    /\ pc = "done" =>
          /\ course.seed = champion_seed
          /\ course.attempts = champion_attempts
          /\ course.score = to_dict(champion_score)

\* A course was returned after max_attempts attempts of which none reached
\* the target and some made events
C7_Witness ==
    /\ pc = "done"
    /\ Len(attempt_log) = MaxAttempts
    /\ \A k \in 1 .. Len(attempt_log) : TotalOf(k) < target_score * SCALE
    /\ \E k \in 1 .. Len(attempt_log) : attempt_log[k].events # <<>>
    /\ course.attempts > 0

\* C8: with an empty beats array an attempt generates no event, validation
\* returns the empty list and cull count 0, every sub-score and the total
\* are 0, and nothing is raised.
C8_EmptyBeats ==
    (beat_data = EmptyBeatsMap /\ attempt_log # <<>>) =>
        /\ vp_events = <<>>
        /\ vp_result = [events |-> <<>>, cull_count |-> 0]
        /\ \A v \in SubScores(scores) : v = 0
        /\ total(scores) = 0
        /\ pc # "KeyError"

\* An attempt has run on the empty beats array
C8_Witness == beat_data = EmptyBeatsMap /\ Len(attempt_log) = MaxAttempts

\* C10 as stated: a call on a BeatMap that lacks a field the core reads
\* executes no attempt and returns no document.
C10_MissingFieldFailsFast ==
    ~(AllFields \subseteq DOMAIN beat_data) => (attempt_log = <<>> /\ pc # "done")

\* ------------------------------------------------------------------------
\* generate_events on its own: one call on a BeatMap, with a bundle that an
\* attempt of generate_course can hold and the source of that attempt
\* ------------------------------------------------------------------------
\* Scenario A: a beat every 0.5 s from 4.0 s to 60.0 s, every signal at 128
ScenarioAMap ==
    BeatMap(1000, 60000, [k \in 1 .. 113 |-> 4000 + (k - 1) * 500],
            [k \in 1 .. 61 |-> 128], [k \in 1 .. 61 |-> 128],
            [k \in 1 .. 61 |-> 128], [k \in 1 .. 61 |-> 128])

\* Two beats a second for 16 s under an energy that drops below every
\* energy_floor for a while and is loud enough for clusters elsewhere
PatchyMap ==
    BeatMap(1000, 16000, [k \in 1 .. 32 |-> (k - 1) * 500],
            <<200, 200, 200, 200, 230, 20, 20, 240, 250, 255, 255, 30, 255,
              220, 210, 200, 200>>,
            <<200, 40, 200, 40, 200, 40, 200, 40, 200, 40, 200, 40, 200,
              40, 200, 40, 200>>,
            <<40, 180, 40, 180, 40, 180, 40, 180, 40, 180, 40, 180, 40,
              180, 40, 180, 40>>,
            [k \in 1 .. 17 |-> 90])

GenBeatMaps == {ScenarioAMap, PatchyMap, LoudMap, DenseMap}

\* Scores that fire every rule of adjust_params as hard as it goes, and
\* scores that fire them mildly
WorstScores ==
    [beat_sync |-> 0, flow |-> 0, difficulty_curve |-> 0, type_variety |-> 0,
     lane_coverage |-> 0, energy_match |-> 0, cull_rate |-> 0]
FairScores ==
    [beat_sync |-> TEN, flow |-> 9000, difficulty_curve |-> 8000,
     type_variety |-> 8000, lane_coverage |-> 8500, energy_match |-> 7000,
     cull_rate |-> 9000]

\* The bundles of a first, a second and a third attempt
GenBundles ==
    LET first == {DIFFICULTY_PRESETS[d] : d \in DOMAIN DIFFICULTY_PRESETS}
        second == {adjust_params(b, sc) : b \in first, sc \in {WorstScores, FairScores}}
        third == {adjust_params(b, FairScores) : b \in second}
    IN  first \cup second \cup third

InitGenerate ==
    /\ pc = "generate_events"
    /\ beat_data \in GenBeatMaps
    /\ params \in GenBundles
    /\ attempt \in 0 .. (MaxAttempts - 1)
    /\ twister \in Twisters
    /\ vp_events = <<>> /\ vp_min_safe = params.min_safe_lanes
    /\ vp_result = NoResult /\ scores = ScoreBreakdown
    /\ difficulty = "normal" /\ max_attempts = MaxAttempts /\ target_score = 0
    /\ attempt_log = <<>>
    /\ champion_events = <<>> /\ champion_score = ScoreBreakdown
    /\ champion_seed = 0 /\ champion_attempts = 0
    /\ course = NoCourse /\ run = 1 /\ first_course = NoCourse
    /\ post_rng = NoRng
    /\ IdleObjects
    /\ IdleHelpers

\* rng = random.Random(seed); events = generate_events(beat_data, params, rng)
GenerateEvents ==
    /\ pc = "generate_events"
    /\ vp_events' = generate_events(beat_data, params,
                                    random_Random(AttemptSeed(attempt)))
    /\ pc' = "generated"
    /\ UNCHANGED <<helperVars, vp_min_safe, vp_result, scVars, gcVars>>

NextGenerate == GenerateEvents

SpecGenerate == InitGenerate /\ [][NextGenerate]_vars

\* The times that carry an event, and the events of one time in list order
EventTimes(events) == {events[i].t : i \in 1 .. Len(events)}
EventsAt(events, t) == SelectSeq(events, LAMBDA e : e.t = t)

\* The 1-based positions in beats of the beats an event may sit on
CandidateIndices(bd, p) ==
    {j \in 1 .. Len(bd.beats) :
        /\ (j - 1) % p.beat_skip = 0
        /\ bd.beats[j] >= INTRO_SKIP_MS
        /\ bd.beats[j] <= bd.duration_ms - OUTRO_SKIP_MS}

\* The first lane of every beat that carries obstacles, in time order
PrimaryLanes(events) ==
    LET firsts == SelectSeq([i \in 1 .. Len(events) |->
                                [e |-> events[i],
                                 first |-> i = 1 \/ events[i - 1].t # events[i].t]],
                            LAMBDA x : x.first /\ ~IsPickup(x.e))
    IN  [k \in 1 .. Len(firsts) |-> firsts[k].e.lane]

ClampLane(l) == Max2(0, Min2(LANE_COUNT - 1, l))

\* ------------------------------------------------------------------------
\* C12: Scenario A
\* ------------------------------------------------------------------------
\* generate_events has run on Scenario A with the normal preset at seed 1
ScenarioA ==
    /\ pc = "generated"
    /\ beat_data = ScenarioAMap
    /\ params = DIFFICULTY_PRESETS["normal"]
    /\ AttemptSeed(attempt) = 1

\* The events lie on beats of the BeatMap at or after the intro skip and not
\* after last_ms
OnBeatsUpTo(last_ms) ==
    \A i \in 1 .. Len(vp_events) :
        /\ \E j \in 1 .. Len(beat_data.beats) : beat_data.beats[j] = vp_events[i].t
        /\ vp_events[i].t >= INTRO_SKIP_MS
        /\ vp_events[i].t <= last_ms

\* C12 as amended: in Scenario A generate_events places events, and places
\* them only on beats inside [4.0, 58.0], 58.0 being duration_s - 2.0.
C12_ScenarioAWindow ==
    ScenarioA => (vp_events # <<>> /\ OnBeatsUpTo(58000))

\* C12 as stated: in Scenario A the events lie only on beats inside
\* [4.0, 55.0].
C12_ScenarioAWindowAsStated == ScenarioA => OnBeatsUpTo(55000)

\* Scenario A with an event after 55.0 s
C12_Witness ==
    /\ ScenarioA
    /\ \E i \in 1 .. Len(vp_events) : vp_events[i].t > 55000
    /\ OnBeatsUpTo(58000)

\* ------------------------------------------------------------------------
\* C18: the cluster cap
\* ------------------------------------------------------------------------
\* C18: the obstacles generate_events places on one beat stand in pairwise
\* distinct lanes and number at most min(max_per_cluster, 4 - min_safe_lanes),
\* so at least min_safe_lanes lanes of the beat stay free; a beat with a
\* pickup carries that pickup and nothing else.
C18_ClusterCap ==
    pc = "generated" =>
        \A t \in EventTimes(vp_events) :
            LET here == EventsAt(vp_events, t)
                obstacles == ObstaclesOf(here)
            IN  /\ params.min_safe_lanes \in 1 .. 3
                /\ \A a, b \in 1 .. Len(obstacles) :
                       a # b => obstacles[a].lane # obstacles[b].lane
                /\ Len(obstacles) <= Min2(params.max_per_cluster,
                                          LANE_COUNT - params.min_safe_lanes)
                /\ LANE_COUNT - Cardinality(BlockedLanes(here))
                       >= params.min_safe_lanes
                /\ PickupsOf(here) # <<>> => Len(here) = 1

\* A generated list with a beat of three obstacles, a beat of two and a
\* pickup beat
C18_Witness ==
    /\ pc = "generated"
    /\ params.max_per_cluster = 3
    /\ \E t \in EventTimes(vp_events) : Len(ObstaclesOf(EventsAt(vp_events, t))) = 3
    /\ \E t \in EventTimes(vp_events) : Len(ObstaclesOf(EventsAt(vp_events, t))) = 2
    /\ \E t \in EventTimes(vp_events) : PickupsOf(EventsAt(vp_events, t)) # <<>>

\* ------------------------------------------------------------------------
\* C19: wave lane assignment
\* ------------------------------------------------------------------------
\* The bounce value of the k-th obstacle beat (k from 0) under an offset
BounceAt(k, offset) == BOUNCE[((k + offset) % Len(BOUNCE)) + 1]

\* C19: every generated lane is in 0..3; for one offset of the run the
\* primary lane of the k-th obstacle beat is the bounce value at k + offset
\* or that value shifted by one lane and clamped; with wave_noise = 0 it is
\* the bounce value itself and consecutive primary lanes differ by at most 1.
C19_WaveLanes ==
    pc = "generated" =>
        LET primary == PrimaryLanes(vp_events)
        IN  /\ \A i \in 1 .. Len(vp_events) : vp_events[i].lane \in Lanes
            /\ \E offset \in 0 .. (Len(BOUNCE) - 1) :
                   \A k \in 1 .. Len(primary) :
                       /\ primary[k] \in {BounceAt(k - 1, offset),
                                          ClampLane(BounceAt(k - 1, offset) - 1),
                                          ClampLane(BounceAt(k - 1, offset) + 1)}
                       /\ params.wave_noise = 0 =>
                              primary[k] = BounceAt(k - 1, offset)
            /\ params.wave_noise = 0 =>
                   \A k \in 1 .. (Len(primary) - 1) :
                       Abs(primary[k + 1] - primary[k]) <= 1

\* A run without noise whose obstacle beats sweep all four lanes with a
\* pickup among them, and only one offset fits
C19_Witness ==
    /\ pc = "generated"
    /\ params.wave_noise = 0
    /\ {PrimaryLanes(vp_events)[k] : k \in 1 .. Len(PrimaryLanes(vp_events))} = Lanes
    /\ \E i \in 2 .. (Len(vp_events) - 1) :
           /\ IsPickup(vp_events[i])
           /\ ~IsPickup(vp_events[i - 1])
           /\ ~IsPickup(vp_events[i + 1])
    /\ Cardinality({offset \in 0 .. (Len(BOUNCE) - 1) :
                       \A k \in 1 .. Len(PrimaryLanes(vp_events)) :
                           PrimaryLanes(vp_events)[k] = BounceAt(k - 1, offset)}) = 1

\* ------------------------------------------------------------------------
\* C20: candidate beats
\* ------------------------------------------------------------------------
\* C20: every generated event sits on a beat whose index is a multiple of
\* beat_skip, whose time lies in [4.0, duration_s - 2.0] and whose sampled
\* energy is at least energy_floor, and the list is in time order.
C20_CandidateBeats ==
    pc = "generated" =>
        /\ \A i \in 1 .. Len(vp_events) :
               \E j \in CandidateIndices(beat_data, params) :
                   /\ beat_data.beats[j] = vp_events[i].t
                   /\ sample_at(beat_data.energy, beat_data.beats[j],
                                beat_data.resolution_ms) >= params.energy_floor
        /\ \A i \in 1 .. (Len(vp_events) - 1) : vp_events[i].t <= vp_events[i + 1].t

\* A generated list that left out beats of the window for their index and
\* beats for their energy
C20_Witness ==
    /\ pc = "generated"
    /\ Len(vp_events) >= 3
    /\ params.beat_skip = 2
    /\ \E j \in 1 .. Len(beat_data.beats) :
           /\ j \notin CandidateIndices(beat_data, params)
           /\ beat_data.beats[j] > vp_events[1].t
           /\ beat_data.beats[j] < vp_events[Len(vp_events)].t
    /\ \E j \in CandidateIndices(beat_data, params) :
           /\ sample_at(beat_data.energy, beat_data.beats[j],
                        beat_data.resolution_ms) < params.energy_floor
           /\ beat_data.beats[j] > vp_events[1].t
           /\ beat_data.beats[j] < vp_events[Len(vp_events)].t

\* ------------------------------------------------------------------------
\* Specification of adjust_params on its own: from a preset, any number of
\* adjustments with scores between 0 and 10
\* ------------------------------------------------------------------------
\* Every sub-score exactly at its bar, beat_sync at 0
AtBars ==
    [beat_sync |-> 0, flow |-> 9500, difficulty_curve |-> 9000,
     type_variety |-> 9000, lane_coverage |-> 9000, energy_match |-> 9000,
     cull_rate |-> 9500]

\* Every sub-score one thousandth below its bar
JustBelowBars ==
    [beat_sync |-> TEN, flow |-> 9499, difficulty_curve |-> 8999,
     type_variety |-> 8999, lane_coverage |-> 8999, energy_match |-> 8999,
     cull_rate |-> 9499]

PerfectScores ==
    [beat_sync |-> TEN, flow |-> TEN, difficulty_curve |-> TEN,
     type_variety |-> TEN, lane_coverage |-> TEN, energy_match |-> TEN,
     cull_rate |-> TEN]

RuleScores == {"flow", "type_variety", "cull_rate"}

\* The scores handed to adjust_params: the extremes, the bars from both
\* sides, a middling attempt, and three rules firing alone with deficit 10
AdjustScores ==
    {WorstScores, FairScores, AtBars, JustBelowBars, PerfectScores}
        \cup {[AtBars EXCEPT ![f] = 0] : f \in RuleScores}

InitAdjust ==
    /\ pc = "adjust_params"
    /\ difficulty \in DOMAIN DIFFICULTY_PRESETS
    /\ params = DIFFICULTY_PRESETS[difficulty]
    /\ scores = ScoreBreakdown
    /\ beat_data = EmptyBeatsMap
    /\ vp_events = <<>> /\ vp_min_safe = params.min_safe_lanes
    /\ vp_result = NoResult
    /\ max_attempts = 0 /\ target_score = 0
    /\ attempt = 0 /\ attempt_log = <<>>
    /\ champion_events = <<>> /\ champion_score = ScoreBreakdown
    /\ champion_seed = 0 /\ champion_attempts = 0
    /\ course = NoCourse /\ run = 1 /\ first_course = NoCourse
    /\ twister = <<>> /\ post_rng = NoRng
    /\ IdleObjects
    /\ IdleHelpers

\* params = adjust_params(params, scores)
AdjustParams ==
    /\ pc = "adjust_params"
    /\ \E sc \in AdjustScores :
           /\ scores' = [ScoreBreakdown EXCEPT
                            !.beat_sync = sc.beat_sync, !.flow = sc.flow,
                            !.difficulty_curve = sc.difficulty_curve,
                            !.type_variety = sc.type_variety,
                            !.lane_coverage = sc.lane_coverage,
                            !.energy_match = sc.energy_match,
                            !.cull_rate = sc.cull_rate]
           /\ params' = adjust_params(params, sc)
    /\ vp_min_safe' = params'.min_safe_lanes
    /\ UNCHANGED <<helperVars, pc, vp_events, vp_result, beat_data, argVars, attempt,
                   attempt_log, championVars, runVars, rngVars, objVars>>

NextAdjust == AdjustParams

SpecAdjust == InitAdjust /\ [][NextAdjust]_vars

\* The fields adjust_params lowers with their floors, and the fields it
\* raises with their ceilings, in thousandths (wave_period in events)
LoweredFields ==
    {<<"wave_noise", 0>>, <<"curve_start", 20>>, <<"density", 250>>,
     <<"cluster2_prob", 50>>, <<"cluster3_prob", 20>>}
RaisedFields ==
    {<<"wave_period", 24>>, <<"pickup_ratio", 450>>,
     <<"energy_influence", 950>>, <<"energy_floor", 350>>}
WeightFields == {"crash_weight", "car_weight", "slow_weight"}

\* w moved to w2 toward a mean of sum3 / 3 without crossing it
TowardMean(w, w2, sum3) ==
    IF 3 * w <= sum3 THEN w <= w2 /\ 3 * w2 <= sum3
                     ELSE w2 <= w /\ 3 * w2 >= sum3

WithinBounds(p) ==
    /\ \A f \in LoweredFields : p[f[1]] >= f[2]
    /\ \A f \in RaisedFields : p[f[1]] <= f[2]

MonotoneStep(p, q) ==
    /\ \A f \in LoweredFields : q[f[1]] <= p[f[1]]
    /\ \A f \in RaisedFields : q[f[1]] >= p[f[1]]
    /\ \A f \in WeightFields :
           TowardMean(p[f], q[f], p.crash_weight + p.car_weight + p.slow_weight)

\* C14: from any of the three presets, after any number of adjust_params
\* calls with any scores between 0 and 10, wave_noise, curve_start, density,
\* cluster2_prob and cluster3_prob have never increased and are at least 0,
\* 0.02, 0.25, 0.05 and 0.02; wave_period, pickup_ratio, energy_influence and
\* energy_floor have never decreased and are at most 24, 0.45, 0.95 and
\* 0.35; and each of the three weights only moves toward the mean of the
\* three without crossing it.
C14_BoundedMonotoneAdaptation ==
    /\ [](pc = "adjust_params" => WithinBounds(params))
    /\ [][pc = "adjust_params" => MonotoneStep(params, params')]_vars

\* Adjusted until wave_noise, cluster3_prob and density sit on their floors and
\* wave_period, pickup_ratio and energy_floor on their ceilings, with the
\* weights pulled together but still apart
C14_Witness ==
    /\ pc = "adjust_params"
    /\ params.wave_noise = 0 /\ params.cluster3_prob = 20 /\ params.density = 250
    /\ params.wave_period = 24 /\ params.pickup_ratio = 450
    /\ params.energy_floor = 350
    /\ params.crash_weight > params.slow_weight
    /\ params.crash_weight < DIFFICULTY_PRESETS[difficulty].crash_weight

\* The fields no rule of adjust_params writes
UntouchedFields == {"beat_skip", "max_per_cluster", "min_safe_lanes",
                    "cluster2_energy", "cluster3_energy"}

\* No sub-score below its bar: 9.5 for flow and cull_rate, 9.0 for the rest
NoRuleFires(sc) ==
    /\ sc.flow >= 9500 /\ sc.cull_rate >= 9500
    /\ sc.difficulty_curve >= 9000 /\ sc.type_variety >= 9000
    /\ sc.lane_coverage >= 9000 /\ sc.energy_match >= 9000

\* C16: when flow and cull_rate are at least 9.5 and difficulty_curve,
\* type_variety, lane_coverage and energy_match at least 9.0, adjust_params
\* returns a bundle equal to its input in every field, whatever beat_sync is;
\* and for any scores beat_skip, max_per_cluster, min_safe_lanes,
\* cluster2_energy and cluster3_energy are unchanged, so the min_safe_lanes
\* handed to validate_paths stays the preset's.
C16_LeftUnchanged ==
    /\ [][pc = "adjust_params" =>
            /\ NoRuleFires(scores') => params' = params
            /\ \A f \in UntouchedFields : params'[f] = params[f]]_vars
    /\ [](pc = "adjust_params" =>
            /\ \A f \in UntouchedFields :
                   params[f] = DIFFICULTY_PRESETS[difficulty][f]
            /\ vp_min_safe = DIFFICULTY_PRESETS[difficulty].min_safe_lanes)

\* An adjusted bundle came back as it was from scores exactly at the bars
\* with beat_sync 0
C16_Witness ==
    /\ pc = "adjust_params"
    /\ scores.beat_sync = 0 /\ scores.flow = 9500 /\ scores.cull_rate = 9500
    /\ scores.difficulty_curve = 9000 /\ scores.type_variety = 9000
    /\ scores.lane_coverage = 9000 /\ scores.energy_match = 9000
    /\ params.wave_noise < DIFFICULTY_PRESETS[difficulty].wave_noise
    /\ params.min_safe_lanes = 3

\* The objects alive before and after a step keep their fields
ObjectsKept ==
    \A id \in DOMAIN heap \cap DOMAIN heap' : heap'[id] = heap[id]

\* The step ran adjust_params: the attempt did not reach the target
Adjusted == pc = "loop" /\ pc' = "loop" /\ attempt' = attempt + 1

\* C15: parameter bundles are never written in place.  adjust_params leaves
\* the object it is given as it was and returns a new object; an attempt
\* (generate_events, validate_paths, compute_scores) changes no field of the
\* bundle it runs with; and the entries of DIFFICULTY_PRESETS hold their
\* values after any number of generate_course runs, so every run of a
\* difficulty starts from the preset's values.
C15_SnapshotsNotMutated ==
    /\ [][/\ run' = run => ObjectsKept
          /\ Adjusted => /\ params_at' \notin DOMAIN heap
                         /\ heap'[params_at'] = params'
                         /\ heap'[params_at] = params
                         /\ attempt_log'[attempt'].params = params]_vars
    /\ [](\A d \in DOMAIN PresetAt : heap[PresetAt[d]] = DIFFICULTY_PRESETS[d])
    /\ [](pc = "loop" /\ attempt = 0 =>
             /\ params = DIFFICULTY_PRESETS[difficulty]
             /\ heap[params_at] = params
             /\ heap[base_params] = params)

\* A second run has adjusted its parameters twice, after a first run that
\* did the same
C15_Witness ==
    /\ run = 2 /\ pc = "loop" /\ attempt = 2
    /\ first_course # NoCourse
    /\ params # DIFFICULTY_PRESETS[difficulty]
    /\ heap[params_at] = params
    /\ Cardinality(DOMAIN heap) = 7

\* How far a call of generate_course has come
Stage ==
    [loop |-> 0, break |-> 0, add_car_crash_beats |-> 1, add_guardians |-> 2,
     add_enemy_cars |-> 3, return |-> 4, done |-> 5, KeyError |-> 6]

\* Attempt k of the call used random.Random(k) and its own bundle, nothing else
SeededByAttempt ==
    \A k \in 1 .. Len(attempt_log) :
        LET a == attempt_log[k]
            generated == generate_events(beat_data, a.params, random_Random(k))
        IN  /\ a.seed = k
            /\ a.events = validate_paths(generated, a.params.min_safe_lanes).events

\* One step of the post-processing, in its order and on one random source
PostProcessingStep ==
    /\ pc' = "add_car_crash_beats" =>
           /\ ChampionChosen
           /\ champion_events # <<>>
           /\ champion_events = attempt_log[champion_attempts].events
           /\ champion_seed = champion_attempts
           /\ post_rng' = random_Random(champion_seed + 1000)
           /\ champion_events' = champion_events
    /\ pc = "add_car_crash_beats" =>
           /\ pc' = "add_guardians"
           /\ LET r == add_car_crash_beats(champion_events, beat_data, post_rng)
              IN  champion_events' = r.events /\ post_rng' = r.rng
    /\ pc = "add_guardians" =>
           /\ pc' = "add_enemy_cars"
           /\ LET r == add_guardians(champion_events, post_rng)
              IN  champion_events' = r.events /\ post_rng' = r.rng
    /\ pc = "add_enemy_cars" =>
           /\ pc' = "return"
           /\ LET r == add_enemy_cars(champion_events, beat_data, post_rng)
              IN  champion_events' = r.events /\ post_rng' = r.rng
    /\ ChampionChosen /\ champion_events = <<>> =>
           pc' = "return" /\ post_rng' = NoRng /\ champion_events' = <<>>

\* Within a call control never goes back: each post-processor is passed once
OnceThrough ==
    run' = run =>
        /\ Stage[pc'] >= Stage[pc]
        /\ Stage[pc] \in 1 .. 3 => Stage[pc'] = Stage[pc] + 1
        /\ pc' \in {"add_guardians", "add_enemy_cars"} => Stage[pc] = Stage[pc'] - 1
        /\ Stage[pc] = 0 /\ Stage[pc'] = 0 => UNCHANGED post_rng

\* C17: attempt k (counted from 1) uses a fresh random source seeded with k
\* and takes nothing from earlier attempts but the parameter bundle and the
\* champion record; the three post-processors run once, after the loop has
\* ended, on the champion's events only, in the order car_crash_beat,
\* guardian, enemy_car, on one source seeded champion_seed + 1000; they do
\* not run when the champion has no events; and the seed field of the Course
\* equals its attempts field.
C17_SeedingAndPostOrder ==
    /\ [](pc # "KeyError" => SeededByAttempt)
    /\ [][PostProcessingStep /\ OnceThrough]_vars
    /\ [](course # NoCourse => course.seed = course.attempts)

\* A call returned the champion of its second attempt with a post-processed
\* event among its events
C17_Witness ==
    /\ pc = "done" /\ course # NoCourse
    /\ course.seed = 2 /\ course.attempts = 2
    /\ Len(attempt_log) >= 2
    /\ post_rng.seed = 1002 /\ post_rng.pos >= 3
    /\ \E i \in 1 .. Len(course.events) :
           course.events[i].type \in {"car_crash_beat", "guardian", "enemy_car"}

\* ------------------------------------------------------------------------
\* C21: what validate_paths removes
\* ------------------------------------------------------------------------
IsPrefix(a, b) == Len(a) <= Len(b) /\ a = SubSeq(b, 1, Len(a))

\* The obstacles of events that lie in the 50 ms window opened at time
ObstaclesWithin(events, time) ==
    SelectSeq(events, LAMBDA e : /\ ~IsPickup(e)
                                 /\ time <= e.t
                                 /\ e.t < time + GROUP_WINDOW_MS)

\* C21: validate_paths removes obstacles only: every pickup of the input is
\* in the output; of each time group the surviving obstacles are the first
\* ones of the group in time-sorted order, so the removed ones are its last
\* ones; cull_count is the number of input events minus the number of output
\* events; the survivors keep t, lane and type; and the output is in time
\* order.
C21_CullingConservation ==
    pc = "validated" =>
        LET out == vp_result.events
            gs == time_groups(vp_events)
        IN  /\ PickupsOf(out) = PickupsOf(SortByT(vp_events))
            /\ \A gi \in 1 .. Len(gs) :
                   IsPrefix(ObstaclesWithin(out, gs[gi].time),
                            ObstaclesOf(gs[gi].events))
            /\ \A i \in 1 .. Len(out) :
                   \E gi \in 1 .. Len(gs) :
                       gs[gi].time <= out[i].t /\ out[i].t < gs[gi].time + GROUP_WINDOW_MS
            /\ vp_result.cull_count = Len(vp_events) - Len(out)
            /\ \A i \in 1 .. (Len(out) - 1) : out[i].t <= out[i + 1].t

\* Of four obstacles in four lanes at one time the last two were removed and
\* the first two stand, next to the pickup of the group
C21_Witness ==
    /\ pc = "validated"
    /\ Len(vp_events) = 5
    /\ \A i \in 1 .. 5 : vp_events[i].t = 4000
    /\ IsPickup(vp_events[3])
    /\ Cardinality(BlockedLanes(vp_events)) = 4
    /\ vp_result.cull_count = 2
    /\ ObstaclesOf(vp_result.events) = <<vp_events[1], vp_events[2]>>
    /\ PickupsOf(vp_result.events) = <<vp_events[3]>>

\* ------------------------------------------------------------------------
\* C22: cull_rate when nothing was generated
\* ------------------------------------------------------------------------
\* C22: compute_scores returns cull_rate = 10 whenever total_generated = 0,
\* and otherwise cull_rate = 10 - 33.3 * cull_count / total_generated kept
\* within 0 and 10.
C22_CullRateOfNothing ==
    pc = "scored" =>
        LET total_generated == Len(vp_events)
            cull_count == vp_result.cull_count
        IN  IF total_generated = 0
            THEN scores.cull_rate = TEN
            ELSE scores.cull_rate =
                     Max2(0, Min2(TEN, TEN - (33300 * cull_count) \div total_generated))

\* ------------------------------------------------------------------------
\* C23: the degenerate cases of flow
\* ------------------------------------------------------------------------
\* C23: for a non-empty list compute_scores returns flow = 10 when there are
\* at most 2 obstacle events, flow = 8 when 3 or more obstacle events fall
\* into fewer than 3 time groups, and in every other case 10.5 * (the
\* fraction of steps of at most one lane - 0.4 * the reversal rate) kept
\* within 0 and 10.
C23_FlowDegenerateCases ==
    pc = "scored" /\ vp_result.events # <<>> =>
        LET obstacle_events == ObstaclesOf(vp_result.events)
            n_groups == Len(time_groups(obstacle_events))
        IN  IF Len(obstacle_events) <= 2 THEN scores.flow = TEN
            ELSE IF n_groups < 3 THEN scores.flow = 8000
            ELSE scores.flow = FlowScore(obstacle_events)

\* ------------------------------------------------------------------------
\* Specification of one attempt on beat maps at the edges: generate_events,
\* validate_paths and compute_scores as generate_course calls them
\* ------------------------------------------------------------------------
HalfSecondBeats(n) == [k \in 1 .. n |-> (k - 1) * 500]

\* Beats but a duration of 0
ZeroDurationMap ==
    BeatMap(1000, 0, HalfSecondBeats(12), <<128>>, <<128>>, <<128>>, <<128>>)

\* 5 s: shorter than the intro and outro skips together
ShortMap ==
    BeatMap(1000, 5000, HalfSecondBeats(10), [k \in 1 .. 6 |-> 200],
            [k \in 1 .. 6 |-> 200], [k \in 1 .. 6 |-> 40], [k \in 1 .. 6 |-> 90])

\* 6 s: the playable span is the single instant 4.0
InstantMap ==
    BeatMap(1000, 6000, HalfSecondBeats(12), [k \in 1 .. 7 |-> 200],
            [k \in 1 .. 7 |-> 200], [k \in 1 .. 7 |-> 40], [k \in 1 .. 7 |-> 90])

\* 12 s of beats with no signal at all
NoSignalMap == BeatMap(1000, 12000, HalfSecondBeats(24), <<>>, <<>>, <<>>, <<>>)

\* 12 s of beats under signals that never change
ConstantMap ==
    BeatMap(1000, 12000, HalfSecondBeats(24), [k \in 1 .. 13 |-> 128],
            [k \in 1 .. 13 |-> 128], [k \in 1 .. 13 |-> 128], [k \in 1 .. 13 |-> 128])

\* The same with a sample every 250 ms and silent bands
FineConstantMap ==
    BeatMap(250, 12000, HalfSecondBeats(24), [k \in 1 .. 49 |-> 255],
            [k \in 1 .. 49 |-> 0], [k \in 1 .. 49 |-> 0], [k \in 1 .. 49 |-> 0])

EdgeBeatMaps ==
    {EmptyBeatsMap, ZeroDurationMap, ShortMap, InstantMap, NoSignalMap,
     ConstantMap, FineConstantMap, QuietMap, LoudMap, PatchyMap}

\* How often a bundle is adjusted before an attempt
MaxRounds == 24

RECURSIVE AdjustedTimes(_, _, _)
AdjustedTimes(p, sc, n) ==
    IF n = 0 THEN p
    ELSE Only({AdjustedTimes(q, sc, n - 1) : q \in {adjust_params(p, sc)}})

\* The presets as they are, once adjusted, and adjusted to the end with the
\* worst scores and with middling ones
EdgeBundles ==
    {AdjustedTimes(DIFFICULTY_PRESETS[d], sc, n) :
        d \in DOMAIN DIFFICULTY_PRESETS, sc \in {WorstScores, FairScores},
        n \in {0, 1, MaxRounds}}

InitEdge ==
    /\ pc = "attempt"
    /\ beat_data \in EdgeBeatMaps
    /\ params \in EdgeBundles
    /\ attempt \in 0 .. (MaxAttempts - 1)
    /\ twister \in Twisters
    /\ vp_events = <<>> /\ vp_min_safe = params.min_safe_lanes
    /\ vp_result = NoResult /\ scores = ScoreBreakdown
    /\ difficulty = "normal" /\ max_attempts = MaxAttempts /\ target_score = 0
    /\ attempt_log = <<>>
    /\ champion_events = <<>> /\ champion_score = ScoreBreakdown
    /\ champion_seed = 0 /\ champion_attempts = 0
    /\ course = NoCourse /\ run = 1 /\ first_course = NoCourse
    /\ post_rng = NoRng
    /\ IdleObjects
    /\ IdleHelpers

\* events = generate_events(beat_data, params, rng)
\* events, cull_count = validate_paths(events, params)
\* scores = compute_scores(events, beat_data, cull_count, total_generated)
RunAttempt ==
    /\ pc = "attempt"
    /\ \E events \in {generate_events(beat_data, params,
                                      random_Random(AttemptSeed(attempt)))} :
       \E v \in {validate_paths(events, params.min_safe_lanes)} :
          /\ vp_events' = events
          /\ vp_result' = v
          /\ scores' = compute_scores(v.events, beat_data, v.cull_count, Len(events))
    /\ pc' = "attempted"
    /\ UNCHANGED <<helperVars, vp_min_safe, beat_data, gcVars>>

NextEdge == RunAttempt

SpecEdge == InitEdge /\ [][NextEdge]_vars

\* ------------------------------------------------------------------------
\* C24: no division by zero
\* ------------------------------------------------------------------------
\* The divisors the three functions compute on the way, those that are not
\* literals: in sample_at, in the candidate loop, in pick_type, in the
\* pickup spacing, and in the seven sub-scores of a non-empty list
Divisors(bd, p, generated, validated) ==
    LET n == Len(validated)
        num_types == Cardinality({TypeKey(validated[i]) : i \in 1 .. n})
        num_windows == Max2(2, bd.duration_ms \div ENERGY_WINDOW_MS)
    IN  {bd.resolution_ms, p.beat_skip,
         p.crash_weight + p.car_weight + p.slow_weight}
            \cup {NPickups(k, p) : k \in 1 .. Len(bd.beats)}
            \cup (IF n > 0 THEN {n, Len(generated)} ELSE {})
            \cup (IF n > 0 /\ num_types > 1
                  THEN {Log2Milli(Min2(num_types, 4))} ELSE {})
            \cup (IF n > 0 /\ bd.duration_ms > 0 THEN {num_windows} ELSE {})

Constant(s) == \A i \in 1 .. Len(s) : s[i] = s[1]

\* C24: on a BeatMap with resolution_ms > 0, be its beats or its energy
\* empty, its energy constant, its duration 0 or shorter than the skips, and
\* with any bundle adjust_params makes from a preset, no divisor of
\* generate_events, validate_paths or compute_scores is 0: the weights of
\* pick_type sum to more than 0, n_pickups is at least 1, and a correlation
\* without variance gives the neutral sub-score 5.0.
C24_NoDivisionByZero ==
    pc = "attempted" =>
        /\ 0 \notin Divisors(beat_data, params, vp_events, vp_result.events)
        /\ params.crash_weight + params.car_weight + params.slow_weight > 0
        /\ params.crash_weight > 0 /\ params.car_weight > 0 /\ params.slow_weight > 0
        /\ \A k \in 0 .. Len(beat_data.beats) : NPickups(k, params) >= 1
        /\ vp_result.events # <<>> /\ Constant(beat_data.energy) =>
               scores.energy_match = 5000
        /\ \A sub \in SubScores(scores) : sub \in 0 .. TEN

\* A scored list under a constant signal, made with weights that an
\* adjustment has drawn towards each other
C24_Witness ==
    /\ pc = "attempted"
    /\ beat_data = ConstantMap
    /\ Len(vp_result.events) >= 3
    /\ params.crash_weight < DIFFICULTY_PRESETS["hard"].crash_weight
    /\ params.beat_skip = 1
    /\ scores.energy_match = 5000
    /\ scores.type_variety > SINGLE_TYPE_VARIETY

\* ------------------------------------------------------------------------
\* C25: where add_car_crash_beats puts its events
\* ------------------------------------------------------------------------
IsSortedByT(events) ==
    \A i \in 1 .. (Len(events) - 1) : events[i].t <= events[i + 1].t

\* The beats of the map that lie 1 to 3 s before the time car_t
BeatsBefore(bd, car_t) ==
    {bd.beats[k] : k \in 1 .. Len(bd.beats)}
        \cap {b \in (car_t - 3000) .. (car_t - 1000) : TRUE}

\* C25: a step of add_car_crash_beats adds only car_crash_beat events.  Each
\* added event has the lane of a car of the input and the time of a beat b
\* with 1.0 <= car_t - b <= 3.0 that minimises |(car_t - b) - 2.0| among
\* such beats, and its lead is (2040 - (200 + 350 * (car_t - b))) / 1000
\* to the millisecond, which is positive.  A car with no beat in that window gets no companion
\* and the run goes on to add_guardians; no event of the input is removed or
\* changed, and the result is sorted by time.
C25_CarCrashBeatPlacement ==
    [][pc = "add_car_crash_beats" =>
        LET in == champion_events
            out == champion_events'
            added == SelectSeq(out, LAMBDA e : e.type = "car_crash_beat")
            cars == {i \in 1 .. Len(in) : in[i].type = "car"}
        IN  /\ pc' = "add_guardians"
            /\ SelectSeq(out, LAMBDA e : e.type # "car_crash_beat") = in
            /\ IsSortedByT(out)
            /\ \A k \in 1 .. Len(added) :
                   \E i \in cars :
                       LET car_t == in[i].t
                           b == added[k].t
                       IN  /\ added[k].lane = in[i].lane
                           /\ b \in BeatsBefore(beat_data, car_t)
                           /\ \A c \in BeatsBefore(beat_data, car_t) :
                                  Abs((car_t - b) - 2000) <= Abs((car_t - c) - 2000)
                           /\ 2 * Abs(added[k].lead * 1000
                                        - (2040 * 1000 - (200 * 1000 + 350 * (car_t - b))))
                                  <= 1000
                           /\ added[k].lead > 0
            /\ Len(added)
                   <= Cardinality({i \in cars : BeatsBefore(beat_data, in[i].t) # {}})
            /\ \A i \in cars :
                   BeatsBefore(beat_data, in[i].t) = {} =>
                       \A k \in 1 .. Len(added) :
                           ~(/\ added[k].lane = in[i].lane
                             /\ in[i].t - added[k].t \in 1000 .. 3000)
    ]_vars

\* Of the two beats 2.2 s and 1.9 s before the car at t = 10.0 the nearer to
\* 2 s before it carries the companion, with lead 1.175
C25_Witness ==
    /\ pc = "add_guardians"
    /\ beat_data.beats = <<1500, 7800, 8100>>
    /\ \E k \in 1 .. Len(champion_events) :
           champion_events[k] = [t |-> 8100, lane |-> 2,
                                 type |-> "car_crash_beat", lead |-> 1175]

\* ------------------------------------------------------------------------
\* C26: what add_enemy_cars converts
\* ------------------------------------------------------------------------
\* How often the event e occurs in events
TimesIn(e, events) == Cardinality({i \in 1 .. Len(events) : events[i] = e})

\* The same events, each as often, in whatever order
SameEvents(a, b) ==
    /\ Len(a) = Len(b)
    /\ \A i \in 1 .. Len(a) : TimesIn(a[i], a) = TimesIn(a[i], b)

\* 350 * (b - (car_t - (960 - 200) / 350)), times in ms: the snap error of
\* the beat b for a car due at car_t, in 1/350 ms
SnapError(b, car_t) == Abs(350 * b - (350 * car_t - (960 - 200) * 1000))

\* The car car_ev as the enemy_car it becomes on the beat b
ConvertedAt(car_ev, b) == [car_ev EXCEPT !.type = "enemy_car", !.t = b]

\* C26: a step of add_enemy_cars, which runs after add_car_crash_beats,
\* converts some of the cars and touches nothing else: the number of events
\* is unchanged and every event that is not converted is in the result as it
\* was.  A converted car has no car_crash_beat in its lane within 4 s of its
\* time, so a car that received a companion is never converted; it keeps its
\* lane, gets type enemy_car and the time of the beat nearest to
\* car_t - (960 - 200) / 350, whose snap error is at most 0.5 s.
C26_EnemyCarConversion ==
    [][pc = "add_enemy_cars" =>
        LET in == champion_events
            out == champion_events'
            beats == {beat_data.beats[k] : k \in 1 .. Len(beat_data.beats)}
            convertible ==
                {i \in 1 .. Len(in) :
                    /\ in[i].type = "car"
                    /\ ~\E k \in 1 .. Len(in) :
                           /\ in[k].type = "car_crash_beat"
                           /\ in[k].lane = in[i].lane
                           /\ Abs(in[k].t - in[i].t) < 4000
                    /\ \E b \in beats : 350 * 500 >= SnapError(b, in[i].t)}
            nearest(i) ==
                CHOOSE b \in beats :
                    \A c \in beats : SnapError(b, in[i].t) <= SnapError(c, in[i].t)
        IN  /\ Len(out) = Len(in)
            /\ \E converted \in SUBSET convertible :
                   SameEvents(out,
                              [i \in 1 .. Len(in) |->
                                  IF i \in converted
                                  THEN ConvertedAt(in[i], nearest(i))
                                  ELSE in[i]])
    ]_vars

\* One car was converted on the beat 28.6 ms from its sweet-spot arrival,
\* next to a car that keeps its companion
C26_Witness ==
    /\ pc = "return"
    /\ \E i, j, k \in 1 .. Len(champion_events) :
           /\ champion_events[i].type = "enemy_car"
           /\ champion_events[i].t = 7800
           /\ champion_events[j].type = "car_crash_beat"
           /\ champion_events[k].type = "car"
           /\ champion_events[k].lane = champion_events[j].lane

\* ------------------------------------------------------------------------
\* Specification of the beat data helpers called on their own
\* ------------------------------------------------------------------------
MaxBeats == 4
MaxSamples == 3

\* The ascending beats sequences of up to MaxBeats beats, repeats included
CalledBeats ==
    UNION {{b \in [1 .. n -> BeatGridTimes] :
               \A i \in 1 .. (n - 1) : b[i] <= b[i + 1]} : n \in 0 .. MaxBeats}

\* Times before the first beat, after the last, on a beat and between beats
CalledTimes == BeatGridTimes \cup {3000, 4200, 4475, 5000, 7000}

\* Signals of up to MaxSamples samples: silence, a fifth, full scale
CalledSignals ==
    UNION {[1 .. n -> {0, 51, BYTE_MAX}] : n \in 0 .. MaxSamples}

\* Times before the signal, inside it, on its samples and after it
SampledTimes ==
    {-1500, -1000, -600, -1, 0, 250, 500, 999, 1000, 1500, 2000, 2500, 5000}

InitHelpers ==
    /\ pc = "call"
    /\ \/ \E beats \in CalledBeats, t \in CalledTimes :
              called = [fn |-> "find_nearest_beat", beats |-> beats, t |-> t]
       \/ \E arr \in CalledSignals, time_ms \in SampledTimes,
             resolution_ms \in {500, 1000} :
              called = [fn |-> "sample_at", arr |-> arr, time_ms |-> time_ms,
                        resolution_ms |-> resolution_ms]
    /\ returned = NoCall
    /\ vp_events = <<>> /\ vp_min_safe = 1 /\ vp_result = NoResult
    /\ beat_data = NoBeatMap
    /\ scores = ScoreBreakdown
    /\ IdleCourse

\* find_nearest_beat(beats, t)
FindNearestBeat ==
    /\ pc = "call"
    /\ called.fn = "find_nearest_beat"
    /\ returned' = [value |-> find_nearest_beat(called.beats, called.t)]
    /\ pc' = "returned"
    /\ UNCHANGED <<called, vpVars, scVars, gcVars>>

\* sample_at(arr, time_s, resolution_ms), the value kept as a fraction
SampleAt ==
    /\ pc = "call"
    /\ called.fn = "sample_at"
    /\ returned' = sample_exactly(called.arr, called.time_ms, called.resolution_ms)
    /\ pc' = "returned"
    /\ UNCHANGED <<called, vpVars, scVars, gcVars>>

NextHelpers == FindNearestBeat \/ SampleAt

SpecHelpers == InitHelpers /\ [][NextHelpers]_vars

\* ------------------------------------------------------------------------
\* C27: find_nearest_beat
\* ------------------------------------------------------------------------
\* C27: for a non-empty ascending beats sequence and a time t that lies
\* before the first beat, after the last, between two beats or on a beat,
\* find_nearest_beat returns the least |b - t| over all beats b; for an
\* empty sequence it returns the sentinel 999.0.
C27_NearestBeat ==
    (pc = "returned" /\ called.fn = "find_nearest_beat") =>
        LET beats == called.beats
            t == called.t
        IN  IF beats = <<>> THEN returned.value = 999 * 1000
            ELSE /\ \E k \in 1 .. Len(beats) : returned.value = Abs(beats[k] - t)
                 /\ \A k \in 1 .. Len(beats) : returned.value <= Abs(beats[k] - t)

\* Between the second and the third of four beats, nearer to the second
C27_Witness ==
    /\ pc = "returned"
    /\ called = [fn |-> "find_nearest_beat",
                 beats |-> <<4000, 4450, 5200, 6000>>, t |-> 4475]
    /\ returned.value = 25

\* ------------------------------------------------------------------------
\* C28: sample_at
\* ------------------------------------------------------------------------
\* The fraction num / den of a returned sample is x / (255 * res)
SampleIs(sample, x, res) == sample.den = BYTE_MAX * res /\ sample.num = x

\* C28: for a signal of n >= 1 samples in 0..255 and a spacing
\* resolution_ms > 0, sample_at returns the first sample / 255 for every
\* t < 0, the last sample / 255 for every t >= (n - 1) * resolution_ms / 1000
\* and the linear interpolation of the two neighbouring samples in between,
\* so the result is always in [0,1]; for an empty signal it returns 0.
C28_SampleAtClamping ==
    (pc = "returned" /\ called.fn = "sample_at") =>
        LET arr == called.arr
            n == Len(arr)
            t == called.time_ms
            res == called.resolution_ms
            i == t \div res
        IN  IF arr = <<>> THEN returned.num = 0
            ELSE /\ 0 <= returned.num /\ returned.num <= returned.den
                 /\ IF t < 0
                    THEN SampleIs(returned, arr[1] * res, res)
                    ELSE IF t >= (n - 1) * res
                    THEN SampleIs(returned, arr[n] * res, res)
                    ELSE SampleIs(returned,
                                  arr[i + 1] * (res - (t - i * res))
                                      + arr[i + 2] * (t - i * res),
                                  res)

\* ------------------------------------------------------------------------
\* C29: validate_paths on a list that is valid already
\* ------------------------------------------------------------------------
\* Nothing was culled from events: the result holds the same events in
\* time order
NothingCulled(result, events) ==
    /\ result.cull_count = 0
    /\ SameEvents(result.events, events)
    /\ IsSortedByT(result.events)

\* A valid input is returned whole
ValidInputKept ==
    (pc = "validated" /\ Playable(vp_events, vp_min_safe)) =>
        NothingCulled(vp_result, vp_events)

\* validate_paths applied to its own output returns it unchanged
OwnOutputKept ==
    pc = "validated" =>
        validate_paths(vp_result.events, vp_min_safe)
            = [events |-> vp_result.events, cull_count |-> 0]

\* C29: validate_paths never culls from an already valid list: an input that
\* satisfies the safe-lane invariant and the reachability invariant for
\* min_safe_lanes is returned with the same events, time-sorted, and
\* cull_count = 0; and validate_paths applied to its own output returns that
\* output unchanged with cull_count = 0.
C29_NoCullOfValidList == ValidInputKept /\ OwnOutputKept

=============================================================================
